---- MODULE Spec2Model ----
(***************************************************************************)
(* The DeepWiki streaming RPC client of src/src/deepwikiClient.ts: the     *)
(* Connect envelope (1 flag byte, 4-byte big-endian length, payload), the  *)
(* buffered parser parseDeepwikiResponses / fetchDeepwikiArticle and the   *)
(* incremental decoder decodeFrame / processBuffer of                      *)
(* streamDeepwikiArticle.                                                  *)
(*                                                                         *)
(* Bytes are naturals 0..255.  Strings are sequences of UTF-16 code units. *)
(***************************************************************************)
EXTENDS Integers, Sequences, FiniteSets, TLC

VARIABLES
    frames,     \* what the server sent: the sequence of frame descriptors
    data,       \* the response body: the bytes of those frames
    nread,      \* streaming: number of body bytes the reader has handed out
    buffer,     \* streaming: `buffer` of streamDeepwikiArticle
    events,     \* streaming: the messages passed to onMessage, in order
    spc,        \* streaming call: "reading", "returned" or "threw"
    bytewise,   \* streaming: every chunk read so far held exactly one byte
    bpc,        \* buffered call: "awaiting", "returned" or "threw"
    parsed,     \* buffered: the locals of parseDeepwikiResponses at its return
    result,     \* buffered: the string fetchDeepwikiArticle returned
    response,   \* the HTTP response: its status and statusText
    error,      \* the message of the Error the call threw, <<>> when none
    calls,      \* two streaming calls at once: the locals of each
    globalState,    \* the extension's Memento: the value stored under 'workspaceId'
    requests,       \* the metadata ids of the requests built so far
    ctxParams,      \* buildContextText: its params
    contextText,    \* buildContextText: what it returned
    sent,           \* framing: the flags and payload handed to the frame writer
    wire,           \* framing: the bytes written and not yet sliced off
    delivered,      \* framing: the frames the reader has sliced off
    varintIn,       \* varint: the number given to encodeVarint
    varintBytes,    \* varint: the bytes encodeVarint returned
    varintOut,      \* varint: what the length reader made of those bytes
    regBuf,         \* field decoders: the buffer they are given
    firstField,     \* field decoders: what decodeFirstStringField returned
    stringFields,   \* field decoders: what decodeStringFields returned
    provider,       \* panel: the fields of ContextWebviewViewProvider
    invocations,    \* panel: the locals of each updateForEditor invocation
    webview,        \* panel: `state` of the webview's App.vue
    effects,        \* panel: what each invocation did to the panel, and when
    lastCall,       \* history: the last history call and the fields before it
    contextUpdateToken, \* context key: `contextUpdateToken` of the extension
    updates,            \* context key: the locals of each `update` call
    contextKey,         \* context key: contextCodeText.hasOutlineContext
    setContextCalls,    \* context key: the setContext calls made, in order
    symbolKind,     \* symbol kind: the vscode.SymbolKind of the editor symbol
    symbolKindText, \* symbol kind: what getSymbolKindText returned
    symbolType,     \* symbol kind: `symbolType` of updateForEditor
    requestJson     \* symbol kind: symbol_type of the request, name and number

\* the variables of one streaming or buffered call
callVars == <<frames, data, nread, buffer, events, spc, bytewise, bpc, parsed, result>>

twoVars == <<calls>>
idVars == <<globalState, requests>>
ctxVars == <<ctxParams, contextText>>
frameVars == <<sent, wire, delivered>>
varintVars == <<varintIn, varintBytes, varintOut>>
fieldVars == <<regBuf, firstField, stringFields>>
panelVars == <<provider, invocations, webview, effects, lastCall>>
keyVars == <<contextUpdateToken, updates, contextKey, setContextCalls>>
kindVars == <<symbolKind, symbolKindText, symbolType, requestJson>>
uiVars == <<panelVars, keyVars, kindVars>>

\* the variables a call on a DeepWiki response never touches
others == <<twoVars, idVars, ctxVars, frameVars, varintVars, fieldVars, uiVars>>

vars == <<callVars, response, error, others>>

\* what a variable holds where it plays no part
None == "none"

TwoIdle == calls = None
IdsIdle == globalState = None /\ requests = None
CtxIdle == ctxParams = None /\ contextText = None
FrameIdle == sent = None /\ wire = None /\ delivered = None
VarintIdle == varintIn = None /\ varintBytes = None /\ varintOut = None
FieldsIdle == regBuf = None /\ firstField = None /\ stringFields = None
PanelIdle ==
    /\ provider = None /\ invocations = None /\ webview = None
    /\ effects = None /\ lastCall = None
KeyIdle ==
    /\ contextUpdateToken = None /\ updates = None
    /\ contextKey = None /\ setContextCalls = None
KindIdle ==
    /\ symbolKind = None /\ symbolKindText = None
    /\ symbolType = None /\ requestJson = None
UiIdle == PanelIdle /\ KeyIdle /\ KindIdle
CallIdle ==
    /\ response = None /\ error = None
    /\ frames = None /\ data = None /\ nread = None /\ buffer = None /\ events = None
    /\ spc = None /\ bytewise = None /\ bpc = None /\ parsed = None /\ result = None

----------------------------------------------------------------------------
(* Bounds of the model *)

MaxInvocations == 2  \* invocations of updateForEditor
MaxStream == 2       \* messages one stream passes to its callback
MaxHistory == 3      \* entries the history grows to
MaxUpdates == 3      \* context-key updates
MaxFrames == 3      \* frames per response
MaxChunk == 2       \* largest partial chunk a read hands out (or all the rest)
MaxPayload == 3     \* longest payload of the framing round trip, the long one aside
MaxTwoFrames == 2   \* frames per response when two calls run at once
MaxRequests == 3    \* requests built in one run
MaxBuf == 3         \* bytes of a buffer before its last field
MaxTailFrames == 2  \* frames before the left-over bytes of a response
MaxJsonFrames == 2  \* frames per response when texts begin with a bracket

----------------------------------------------------------------------------
(* Sequences *)

RECURSIVE Flatten(_)
Flatten(ss) == IF ss = <<>> THEN <<>> ELSE Head(ss) \o Flatten(Tail(ss))

RECURSIVE JoinWith(_, _)
JoinWith(ss, sep) ==
    IF ss = <<>> THEN <<>>
    ELSE IF Len(ss) = 1 THEN ss[1]
    ELSE ss[1] \o sep \o JoinWith(Tail(ss), sep)

StartsWith(s, c) == Len(s) >= 1 /\ s[1] = c

MinOf(S) == CHOOSE x \in S : \A y \in S : x <= y
MaxOf(S) == CHOOSE x \in S : \A y \in S : x >= y

----------------------------------------------------------------------------
(* JavaScript string operations *)

\* WhiteSpace and LineTerminator code units, as String.prototype.trim uses them
IsWhiteSpace(c) ==
    \/ c \in {9, 10, 11, 12, 13, 32, 160, 5760, 8232, 8233, 8239, 8287, 12288, 65279}
    \/ c \in 8192..8202

TrimStart(s) ==
    LET keep == {i \in 1..Len(s) : ~IsWhiteSpace(s[i])}
    IN  IF keep = {} THEN <<>> ELSE SubSeq(s, MinOf(keep), Len(s))

Trim(s) ==
    LET keep == {i \in 1..Len(s) : ~IsWhiteSpace(s[i])}
    IN  IF keep = {} THEN <<>> ELSE SubSeq(s, MinOf(keep), MaxOf(keep))

\* s.split(/\r?\n/): cut at each "\n", dropping a "\r" right before it
RECURSIVE SplitLines(_)
SplitLines(s) ==
    LET nl == {i \in 1..Len(s) : s[i] = 10}
    IN  IF nl = {} THEN <<s>>
        ELSE LET i == MinOf(nl)
                 e == IF i > 1 /\ s[i - 1] = 13 THEN i - 2 ELSE i - 1
             IN  <<SubSeq(s, 1, e)>> \o SplitLines(SubSeq(s, i + 1, Len(s)))

\* Canonicalize of a case-insensitive, non-unicode RegExp: toUpperCase, and a
\* code unit >= 128 never folds onto an ASCII one
Canonicalize(c) == IF c \in 97..122 THEN c - 32 ELSE c

\* "-followup"
FollowupSuffix == <<45, 102, 111, 108, 108, 111, 119, 117, 112>>

\* a slip: /-followup/i, the pattern without its `$`
IsFollowupAnywhere(convId) ==
    \E i \in 1..Len(convId) :
        /\ i + Len(FollowupSuffix) - 1 <= Len(convId)
        /\ \A j \in 1..Len(FollowupSuffix) :
              Canonicalize(convId[i + j - 1]) = Canonicalize(FollowupSuffix[j])

\* /-followup$/i.test(convId): the pattern matches at some index and `$` is the
\* end of the input (no multiline flag)
IsFollowup(convId) ==
    \E i \in 1..Len(convId) :
        /\ i + Len(FollowupSuffix) - 1 = Len(convId)
        /\ \A j \in 1..Len(FollowupSuffix) :
              Canonicalize(convId[i + j - 1]) = Canonicalize(FollowupSuffix[j])

----------------------------------------------------------------------------
(* Buffer.toString('utf8') and TextDecoder('utf-8', {fatal: true}).          *)
(* One-, two- and three-byte sequences are decoded; any other byte is        *)
(* malformed (U+FFFD when lenient, an exception when fatal).                 *)

IsCont(b) == b \in 128..191

Utf8Width(buf, i) ==
    IF buf[i] < 128 THEN 1
    ELSE IF buf[i] \in 194..223 /\ i + 1 <= Len(buf) /\ IsCont(buf[i + 1]) THEN 2
    ELSE IF buf[i] \in 224..239 /\ i + 2 <= Len(buf)
            /\ IsCont(buf[i + 1]) /\ IsCont(buf[i + 2]) THEN 3
    ELSE 0

Utf8Unit(buf, i) ==
    LET w == Utf8Width(buf, i)
    IN  IF w = 1 THEN buf[i]
        ELSE IF w = 2 THEN (buf[i] - 192) * 64 + (buf[i + 1] - 128)
        ELSE IF w = 3 THEN (buf[i] - 224) * 4096 + (buf[i + 1] - 128) * 64
                           + (buf[i + 2] - 128)
        ELSE 65533

RECURSIVE Utf8From(_, _)
Utf8From(buf, i) ==
    IF i > Len(buf) THEN <<>>
    ELSE <<Utf8Unit(buf, i)>> \o Utf8From(buf, i + MaxOf({1, Utf8Width(buf, i)}))

\* bytes below 0x80 are their own code units
ToStringUtf8(buf) ==
    IF \A i \in 1..Len(buf) : buf[i] < 128 THEN buf ELSE Utf8From(buf, 1)

RECURSIVE Utf8WellFormedFrom(_, _)
Utf8WellFormedFrom(buf, i) ==
    IF i > Len(buf) THEN TRUE
    ELSE Utf8Width(buf, i) > 0 /\ Utf8WellFormedFrom(buf, i + Utf8Width(buf, i))

Utf8WellFormed(buf) == Utf8WellFormedFrom(buf, 1)

\* Buffer.from(str, 'utf8') for code units below U+0800 (all the model sends)
RECURSIVE Utf8EncodeUnits(_)
Utf8EncodeUnits(s) ==
    IF s = <<>> THEN <<>>
    ELSE (IF s[1] < 128 THEN <<s[1]>>
          ELSE <<192 + (s[1] \div 64), 128 + (s[1] % 64)>>) \o Utf8EncodeUnits(Tail(s))

\* code units below 0x80 are their own bytes
Utf8Encode(s) ==
    IF \A i \in 1..Len(s) : s[i] < 128 THEN s ELSE Utf8EncodeUnits(s)

----------------------------------------------------------------------------
(* zlib: a gzip member is the magic 1f 8b 08, the stored body and a trailer  *)
(* byte holding the body length mod 256 (the ISIZE check).  gunzipSync       *)
(* throws on anything else.                                                  *)

GzipMagic == <<31, 139, 8>>

Gzip(bytes) == GzipMagic \o bytes \o <<Len(bytes) % 256>>

IsGzip(p) ==
    /\ Len(p) >= 4
    /\ SubSeq(p, 1, 3) = GzipMagic
    /\ p[Len(p)] = (Len(p) - 4) % 256

GunzipSync(p) ==
    IF IsGzip(p) THEN [ok |-> TRUE, bytes |-> SubSeq(p, 4, Len(p) - 1)]
    ELSE [ok |-> FALSE, bytes |-> <<>>]

----------------------------------------------------------------------------
(* BinaryReader of @protobuf-ts/runtime.  A position is the 0-based `pos` of *)
(* the reader; a failed read is the exception the reader throws.             *)
(* An unsigned 32-bit value of 2^31 or more is held as 2^31 - 1: it is only  *)
(* ever compared with the length of a buffer, which is far smaller.          *)

AtLeast2G == 2147483647

ReadFail == [ok |-> FALSE, val |-> 0, pos |-> 0]

\* the bits the n-th byte of a varint adds (the 5th gives 4 bits, later none)
VarintPart(b, n) ==
    IF n < 4 THEN (b % 128) * (2 ^ (7 * n))
    ELSE IF n = 4 THEN (IF b % 16 >= 8 THEN AtLeast2G ELSE (b % 16) * (2 ^ 28))
    ELSE 0

VarintAdd(part, r) ==
    IF ~r.ok THEN ReadFail
    ELSE IF r.val = AtLeast2G \/ part = AtLeast2G THEN [r EXCEPT !.val = AtLeast2G]
    ELSE [r EXCEPT !.val = part + r.val]

\* varint32read + assertBounds: 7 bits per byte, up to 10 bytes are consumed;
\* running off the buffer is "premature EOF", an 11th byte "invalid varint"
RECURSIVE VarintFrom(_, _, _)
VarintFrom(buf, pos, n) ==
    IF pos >= Len(buf) THEN ReadFail
    ELSE IF buf[pos + 1] < 128
    THEN [ok |-> TRUE, val |-> VarintPart(buf[pos + 1], n), pos |-> pos + 1]
    ELSE IF n = 9 THEN ReadFail
    ELSE VarintAdd(VarintPart(buf[pos + 1], n), VarintFrom(buf, pos + 1, n + 1))

Uint32(buf, pos) == VarintFrom(buf, pos, 0)

\* bool(): some byte of the (64-bit) varint carries a set bit
BoolOf(buf, pos, r) ==
    IF ~r.ok THEN ReadFail
    ELSE [r EXCEPT !.val = IF \E i \in pos + 1..r.pos : buf[i] % 128 # 0 THEN 1 ELSE 0]

ReadBool(buf, pos) == BoolOf(buf, pos, Uint32(buf, pos))

TagFail == [ok |-> FALSE, fieldNo |-> 0, wireType |-> 0, pos |-> 0]

TagOf(r) ==
    IF ~r.ok THEN TagFail
    ELSE IF r.val \div 8 <= 0 \/ r.val % 8 > 5 THEN TagFail
    ELSE [ok |-> TRUE, fieldNo |-> r.val \div 8, wireType |-> r.val % 8, pos |-> r.pos]

\* tag(): field number (> 0) and wire type (0..5), else "illegal tag"
ReadTag(buf, pos) == TagOf(Uint32(buf, pos))

StringFail == [ok |-> FALSE, str |-> <<>>, pos |-> 0]

StringOf(bytes, after) ==
    IF Utf8WellFormed(bytes) THEN [ok |-> TRUE, str |-> ToStringUtf8(bytes), pos |-> after]
    ELSE StringFail

StringAt(buf, r) ==
    IF ~r.ok \/ r.val > Len(buf) - r.pos THEN StringFail
    ELSE StringOf(SubSeq(buf, r.pos + 1, r.pos + r.val), r.pos + r.val)

\* string(): a length, that many bytes (assertBounds), decoded as fatal UTF-8
ReadString(buf, pos) == StringAt(buf, Uint32(buf, pos))

\* assertBounds after a skip
Bounded(buf, after) == IF after < 0 \/ after > Len(buf) THEN -1 ELSE after

VarintEnd(buf, last) == IF last = {} THEN -1 ELSE MinOf(last)

BytesEnd(buf, r) == IF r.ok /\ r.val <= Len(buf) - r.pos THEN r.pos + r.val ELSE -1

\* skip(wireType): the position after the field, or -1 for the exception
RECURSIVE Skip(_, _, _)
RECURSIVE SkipGroupAt(_, _)
RECURSIVE SkipGroupNext(_, _)
Skip(buf, pos, wireType) ==
    Bounded(buf,
        CASE wireType = 0 -> VarintEnd(buf, {i \in pos + 1..Len(buf) : buf[i] < 128})
          [] wireType = 1 -> pos + 8
          [] wireType = 5 -> pos + 4
          [] wireType = 2 -> BytesEnd(buf, Uint32(buf, pos))
          [] wireType = 3 -> SkipGroupAt(buf, ReadTag(buf, pos))
          [] OTHER -> -1)

\* a group is skipped field by field up to its end-group tag
SkipGroupAt(buf, t) ==
    IF ~t.ok THEN -1
    ELSE IF t.wireType = 4 THEN t.pos
    ELSE SkipGroupNext(buf, Skip(buf, t.pos, t.wireType))

SkipGroupNext(buf, after) ==
    IF after < 0 THEN -1 ELSE SkipGroupAt(buf, ReadTag(buf, after))

----------------------------------------------------------------------------
(* GetDeepWikiResponse of ./generated/deepwiki_full (generated reader):      *)
(*   message GetDeepWikiResponse { Response response = 1;                    *)
(*                                 bool is_article_done = 2;                 *)
(*                                 string followup_questions = 3; }          *)
(*   message Response { string text_delta = 1; string conversation_id = 2; } *)
(* Unknown fields are skipped (readUnknownField: false).  A reader state is  *)
(* the message read so far and the position; ok = FALSE is the exception,    *)
(* which leaves the half-filled message behind, out of the caller's reach.   *)

NewResponse == [textDelta |-> <<>>, conversationId |-> <<>>]

NewMessage ==
    [hasResponse |-> FALSE, response |-> NewResponse,
     isArticleDone |-> FALSE, followupQuestions |-> <<>>]

MsgFail(msg) == [ok |-> FALSE, msg |-> msg, pos |-> 0]

RECURSIVE ReadResponse(_, _, _, _)
RECURSIVE ReadResponseField(_, _, _, _)

ResponseString(target, fieldNo, s) ==
    IF ~s.ok THEN [ok |-> FALSE, msg |-> target, pos |-> 0]
    ELSE [ok |-> TRUE, pos |-> s.pos,
          msg |-> IF fieldNo = 1 THEN [target EXCEPT !.textDelta = s.str]
                  ELSE [target EXCEPT !.conversationId = s.str]]

ResponseSkipped(target, after) ==
    IF after < 0 THEN [ok |-> FALSE, msg |-> target, pos |-> 0]
    ELSE [ok |-> TRUE, msg |-> target, pos |-> after]

ResponseNext(buf, end, st) ==
    IF ~st.ok THEN st ELSE ReadResponse(buf, st.pos, end, st.msg)

ReadResponseField(buf, end, target, t) ==
    IF ~t.ok THEN [ok |-> FALSE, msg |-> target, pos |-> 0]
    ELSE IF t.fieldNo \in {1, 2}
    THEN ResponseNext(buf, end, ResponseString(target, t.fieldNo, ReadString(buf, t.pos)))
    ELSE ResponseNext(buf, end, ResponseSkipped(target, Skip(buf, t.pos, t.wireType)))

\* Response.internalBinaryRead(reader, length, options, target)
ReadResponse(buf, pos, end, target) ==
    IF pos >= end THEN [ok |-> TRUE, msg |-> target, pos |-> pos]
    ELSE ReadResponseField(buf, end, target, ReadTag(buf, pos))

\* the end of a sub-message of the announced length; past the buffer when the
\* length runs over it (the reads there throw)
SubEnd(buf, l) ==
    IF l.val > Len(buf) - l.pos THEN Len(buf) + 1 ELSE l.pos + l.val

ResponseAt(buf, l, target) ==
    IF ~l.ok THEN [ok |-> FALSE, msg |-> target, pos |-> 0]
    ELSE ReadResponse(buf, l.pos, SubEnd(buf, l), target)

MessageResponse(msg, r) ==
    [ok |-> r.ok, pos |-> r.pos,
     msg |-> [msg EXCEPT !.hasResponse = TRUE, !.response = r.msg]]

MessageBool(msg, b) ==
    IF ~b.ok THEN MsgFail(msg)
    ELSE [ok |-> TRUE, pos |-> b.pos, msg |-> [msg EXCEPT !.isArticleDone = (b.val = 1)]]

MessageString(msg, s) ==
    IF ~s.ok THEN MsgFail(msg)
    ELSE [ok |-> TRUE, pos |-> s.pos, msg |-> [msg EXCEPT !.followupQuestions = s.str]]

MessageSkipped(msg, after) ==
    IF after < 0 THEN MsgFail(msg) ELSE [ok |-> TRUE, msg |-> msg, pos |-> after]

RECURSIVE ReadMessage(_, _, _, _)
RECURSIVE ReadMessageField(_, _, _, _)

MessageNext(buf, end, st) ==
    IF ~st.ok THEN st ELSE ReadMessage(buf, st.pos, end, st.msg)

ReadMessageField(buf, end, msg, t) ==
    IF ~t.ok THEN MsgFail(msg)
    ELSE MessageNext(buf, end,
           CASE t.fieldNo = 1 ->
                  MessageResponse(msg, ResponseAt(buf, Uint32(buf, t.pos), msg.response))
             [] t.fieldNo = 2 -> MessageBool(msg, ReadBool(buf, t.pos))
             [] t.fieldNo = 3 -> MessageString(msg, ReadString(buf, t.pos))
             [] OTHER -> MessageSkipped(msg, Skip(buf, t.pos, t.wireType)))

\* GetDeepWikiResponse.internalBinaryRead(reader, length, options)
ReadMessage(buf, pos, end, msg) ==
    IF pos >= end THEN [ok |-> TRUE, msg |-> msg, pos |-> pos]
    ELSE ReadMessageField(buf, end, msg, ReadTag(buf, pos))

internalBinaryRead(buf) == ReadMessage(buf, 0, Len(buf), NewMessage)

----------------------------------------------------------------------------
(* Buffer integer access *)

\* buf.readUInt32BE(offset): RangeError unless 4 bytes are there
ReadUInt32BE(buf, offset) ==
    IF offset + 4 > Len(buf) THEN [ok |-> FALSE, val |-> 0]
    ELSE [ok |-> TRUE,
          val |-> IF buf[offset + 1] >= 128 THEN AtLeast2G
                  ELSE buf[offset + 1] * 16777216 + buf[offset + 2] * 65536
                       + buf[offset + 3] * 256 + buf[offset + 4]]

\* a slip: the top bit of the length is dropped
Int32BEUnsigned(b1, b2, b3, b4) ==
    (b1 % 128) * 16777216 + b2 * 65536 + b3 * 256 + b4

\* (a << 24) | (b << 16) | (c << 8) | d on 32-bit signed integers
Int32BE(b1, b2, b3, b4) ==
    (IF b1 >= 128 THEN b1 - 256 ELSE b1) * 16777216 + b2 * 65536 + b3 * 256 + b4

\* a slip: the length is written low byte first
WriteUInt32LE(n) ==
    <<n % 256, (n \div 256) % 256, (n \div 65536) % 256, (n \div 16777216) % 256>>

\* frame.writeUInt32BE(n, 1)
WriteUInt32BE(n) ==
    <<(n \div 16777216) % 256, (n \div 65536) % 256, (n \div 256) % 256, n % 256>>

----------------------------------------------------------------------------
(* streamDeepwikiArticle: decodeFrame and processBuffer *)

\* a slip: a payload that fails to gunzip is given up (no bytes)
uncompressedOrNothing(flags, payload) ==
    IF flags % 2 = 1
    THEN LET g == GunzipSync(payload) IN IF g.ok THEN g.bytes ELSE <<>>
    ELSE payload

\* lines 462-472: gunzip when bit 0 of the flags is set, raw bytes when that throws
uncompressed(flags, payload) ==
    IF flags % 2 = 1
    THEN LET g == GunzipSync(payload) IN IF g.ok THEN g.bytes ELSE payload
    ELSE payload

\* lines 474-475: the payload as text, left-trimmed, starts with "{" or "["
LooksLikeJson(bytes) ==
    LET trimmed == TrimStart(ToStringUtf8(bytes))
    IN  StartsWith(trimmed, 123) \/ StartsWith(trimmed, 91)

DoneMessage == [type |-> "done", text |-> <<>>]
TextMessage(kind, text) == [type |-> kind, text |-> text]

\* a slip: messages are passed on field by field while the frame is read, so a
\* reader that throws midway has already delivered what it had read
onMessagesEarly(r) ==
    (IF r.msg.isArticleDone THEN <<DoneMessage>> ELSE <<>>)
    \o (IF r.msg.hasResponse /\ r.msg.response.textDelta # <<>>
        THEN <<TextMessage(IF IsFollowup(r.msg.response.conversationId)
                           THEN "followup" ELSE "article",
                           r.msg.response.textDelta)>>
        ELSE <<>>)
    \o (IF r.msg.followupQuestions # <<>> /\ Trim(r.msg.followupQuestions) # <<>>
        THEN <<TextMessage("followup", r.msg.followupQuestions)>>
        ELSE <<>>)

\* a slip: the follow-up block is trimmed before it is passed on
onMessagesTrimmed(r) ==
    IF ~r.ok THEN <<>>
    ELSE (IF r.msg.isArticleDone THEN <<DoneMessage>> ELSE <<>>)
         \o (IF r.msg.hasResponse /\ r.msg.response.textDelta # <<>>
             THEN <<TextMessage(IF IsFollowup(r.msg.response.conversationId)
                                THEN "followup" ELSE "article",
                                r.msg.response.textDelta)>>
             ELSE <<>>)
         \o (IF r.msg.followupQuestions # <<>> /\ Trim(r.msg.followupQuestions) # <<>>
             THEN <<TextMessage("followup", Trim(r.msg.followupQuestions))>>
             ELSE <<>>)

\* a slip: the text is passed on before 'done'
onMessagesTextFirst(r) ==
    IF ~r.ok THEN <<>>
    ELSE (IF r.msg.hasResponse /\ r.msg.response.textDelta # <<>>
          THEN <<TextMessage(IF IsFollowup(r.msg.response.conversationId)
                             THEN "followup" ELSE "article",
                             r.msg.response.textDelta)>>
          ELSE <<>>)
         \o (IF r.msg.isArticleDone THEN <<DoneMessage>> ELSE <<>>)
         \o (IF r.msg.followupQuestions # <<>> /\ Trim(r.msg.followupQuestions) # <<>>
             THEN <<TextMessage("followup", r.msg.followupQuestions)>>
             ELSE <<>>)

\* lines 485-497: the messages of a decoded response; nothing when the reader
\* threw (lines 498-500)
onMessages(r) ==
    IF ~r.ok THEN <<>>
    ELSE (IF r.msg.isArticleDone THEN <<DoneMessage>> ELSE <<>>)
         \o (IF r.msg.hasResponse /\ r.msg.response.textDelta # <<>>
             THEN <<TextMessage(IF IsFollowup(r.msg.response.conversationId)
                                THEN "followup" ELSE "article",
                                r.msg.response.textDelta)>>
             ELSE <<>>)
         \o (IF r.msg.followupQuestions # <<>> /\ Trim(r.msg.followupQuestions) # <<>>
             THEN <<TextMessage("followup", r.msg.followupQuestions)>>
             ELSE <<>>)

\* lines 474-500: a JSON text is dropped, anything else is read as a response
decodeBytes(u) == IF LooksLikeJson(u) THEN <<>> ELSE onMessages(internalBinaryRead(u))

\* lines 461-501: the messages one frame passes to onMessage
decodeFrame(flags, payload) == decodeBytes(uncompressed(flags, payload))

Waiting(buf) == [buffer |-> buf, out |-> <<>>, threw |-> FALSE]

\* a slip: the messages of the frames behind come out first
EmittedBehind(out, rest) == [rest EXCEPT !.out = rest.out \o out]

\* a slip: nothing is passed on after a frame that signalled done
EmittedUntilDone(out, rest) ==
    [rest EXCEPT !.out = IF \E i \in 1..Len(out) : out[i] = DoneMessage
                         THEN out ELSE out \o rest.out]

Emitted(out, rest) == [rest EXCEPT !.out = out \o rest.out]

\* lines 505-514: slice complete frames off the front of the buffer
RECURSIVE processBuffer(_)
RECURSIVE processFrame(_, _)

\* a slip: the last byte of a frame stays in the buffer
processFrameKeepingByte(buf, len) ==
    IF ~len.ok THEN [buffer |-> buf, out |-> <<>>, threw |-> TRUE]
    ELSE IF len.val < 0 \/ Len(buf) - 5 < len.val THEN Waiting(buf)
    ELSE Emitted(decodeFrame(buf[1], SubSeq(buf, 6, 5 + len.val)),
                 processBuffer(SubSeq(buf, 5 + len.val, Len(buf))))

\* a slip: the header is read as soon as one byte is buffered
processBufferEager(buf) ==
    IF Len(buf) >= 1 THEN processFrame(buf, ReadUInt32BE(buf, 1)) ELSE Waiting(buf)

processBuffer(buf) ==
    IF Len(buf) >= 5 THEN processFrame(buf, ReadUInt32BE(buf, 1)) ELSE Waiting(buf)

processFrame(buf, len) ==
    IF ~len.ok THEN [buffer |-> buf, out |-> <<>>, threw |-> TRUE]
    ELSE IF len.val < 0 \/ Len(buf) - 5 < len.val THEN Waiting(buf)
    ELSE Emitted(decodeFrame(buf[1], SubSeq(buf, 6, 5 + len.val)),
                 processBuffer(SubSeq(buf, 6 + len.val, Len(buf))))

----------------------------------------------------------------------------
(* parseDeepwikiResponses and fetchDeepwikiArticle *)

\* lines 251-261
uncompressedBuf(flags, frame) ==
    IF flags % 2 = 1
    THEN LET g == GunzipSync(frame) IN IF g.ok THEN g.bytes ELSE frame
    ELSE frame

NoParts == [articleParts |-> <<>>, followupParts |-> <<>>, isArticleDoneSeen |-> FALSE]

\* lines 276-292: what a decoded response adds to the parts; nothing when the
\* reader threw (lines 293-295)
pushParts(acc, r) ==
    IF ~r.ok THEN acc
    ELSE [articleParts |->
              acc.articleParts
              \o (IF r.msg.hasResponse /\ r.msg.response.textDelta # <<>>
                     /\ ~IsFollowup(r.msg.response.conversationId)
                  THEN <<r.msg.response.textDelta>> ELSE <<>>),
          followupParts |->
              acc.followupParts
              \o (IF r.msg.hasResponse /\ r.msg.response.textDelta # <<>>
                     /\ IsFollowup(r.msg.response.conversationId)
                  THEN <<r.msg.response.textDelta>> ELSE <<>>)
              \o (IF r.msg.followupQuestions # <<>>
                     /\ Trim(r.msg.followupQuestions) # <<>>
                  THEN <<r.msg.followupQuestions>> ELSE <<>>),
          isArticleDoneSeen |-> acc.isArticleDoneSeen \/ r.msg.isArticleDone]

\* lines 263-295: a JSON text is skipped, anything else is read as a response
parseBytes(u, acc) ==
    IF LooksLikeJson(u) THEN acc ELSE pushParts(acc, internalBinaryRead(u))

\* lines 249-295: what one frame adds to articleParts / followupParts
parseFrame(flags, frame, acc) == parseBytes(uncompressedBuf(flags, frame), acc)

\* lines 236-296: the frame loop over the whole body, from a 0-based offset
RECURSIVE parseLoop(_, _, _)
RECURSIVE parseAt(_, _, _, _)
parseLoop(bytes, offset, acc) ==
    IF offset + 5 > Len(bytes) THEN acc
    ELSE parseAt(bytes, offset, acc,
                 Int32BE(bytes[offset + 2], bytes[offset + 3],
                         bytes[offset + 4], bytes[offset + 5]))

\* a slip: a JSON frame ends the loop (break for continue)
parseAtBreakOnJson(bytes, offset, acc, len) ==
    IF len < 0 \/ len > Len(bytes) - (offset + 5) THEN acc
    ELSE IF LooksLikeJson(uncompressedBuf(bytes[offset + 1],
                                          SubSeq(bytes, offset + 6, offset + 5 + len)))
    THEN acc
    ELSE parseLoop(bytes, offset + 5 + len,
                   parseFrame(bytes[offset + 1],
                              SubSeq(bytes, offset + 6, offset + 5 + len), acc))

\* a slip: a frame that is cut short is decoded as far as it goes
parseAtShort(bytes, offset, acc, len) ==
    IF len < 0 THEN acc
    ELSE IF len > Len(bytes) - (offset + 5)
    THEN parseFrame(bytes[offset + 1], SubSeq(bytes, offset + 6, Len(bytes)), acc)
    ELSE parseLoop(bytes, offset + 5 + len,
                   parseFrame(bytes[offset + 1],
                              SubSeq(bytes, offset + 6, offset + 5 + len), acc))

parseAt(bytes, offset, acc, len) ==
    IF len < 0 \/ len > Len(bytes) - (offset + 5) THEN acc
    ELSE parseLoop(bytes, offset + 5 + len,
                   parseFrame(bytes[offset + 1],
                              SubSeq(bytes, offset + 6, offset + 5 + len), acc))

\* a slip: a repeated line replaces its first occurrence (last one wins)
RECURSIVE uniqueOfLast(_, _)
uniqueOfLast(items, seen) ==
    IF items = <<>> THEN <<>>
    ELSE IF \E i \in 2..Len(items) : items[i] = Head(items)
    THEN uniqueOfLast(Tail(items), seen)
    ELSE <<Head(items)>> \o uniqueOfLast(Tail(items), seen)

\* lines 299-302: unique, trimmed, non-empty lines in first-seen order
RECURSIVE uniqueOf(_, _)
uniqueOf(items, seen) ==
    IF items = <<>> THEN <<>>
    ELSE IF Head(items) \in seen THEN uniqueOf(Tail(items), seen)
    ELSE <<Head(items)>> \o uniqueOf(Tail(items), seen \cup {Head(items)})

RECURSIVE TrimAll(_)
TrimAll(ls) == IF ls = <<>> THEN <<>> ELSE <<Trim(Head(ls))>> \o TrimAll(Tail(ls))

followupItems(followupsRaw) ==
    SelectSeq(TrimAll(SplitLines(followupsRaw)), LAMBDA l : Len(l) > 0)

\* "---" and the header line of the section
Rule == <<45, 45, 45>>
Header == <<21518, 32493, 25552, 38382>>
Bullet(q) == <<45, 32>> \o q

RECURSIVE Bullets(_)
Bullets(qs) == IF qs = <<>> THEN <<>> ELSE <<Bullet(Head(qs))>> \o Bullets(Tail(qs))

\* a slip: the section is appended even when there is no follow-up to list
formatResultAlways(article, unique) ==
    article \o <<10>> \o JoinWith(<<<<>>, Rule, <<>>, Header>> \o Bullets(unique), <<10>>)

\* lines 303-307
formatResult(article, unique) ==
    IF Len(unique) = 0 THEN article
    ELSE article \o <<10>>
         \o JoinWith(<<<<>>, Rule, <<>>, Header>> \o Bullets(unique), <<10>>)

finalize(acc, article, unique) ==
    [articleParts |-> acc.articleParts, followupParts |-> acc.followupParts,
     isArticleDoneSeen |-> acc.isArticleDoneSeen,
     article |-> article, unique |-> unique, text |-> formatResult(article, unique)]

joinParts(acc) ==
    finalize(acc, Flatten(acc.articleParts),
             uniqueOf(followupItems(Flatten(acc.followupParts)), {}))

\* lines 232-308, with the locals kept for inspection
parseDeepwikiResponses(bytes) == joinParts(parseLoop(bytes, 0, NoParts))

----------------------------------------------------------------------------
(* The server: what a response body is made of.  A frame descriptor says     *)
(* what the server meant to send:                                            *)
(*   flags  the envelope flag byte (bit 0: payload is gzip, bit 1: end)      *)
(*   gz     whether the payload really is gzip-compressed                    *)
(*   kind   "delta" (a GetDeepWikiResponse), "json" (an end-of-stream JSON   *)
(*          text) or "junk" (bytes that are no message)                      *)
(*   text, conv, done, fq   the fields of a delta                            *)
(*   raw    the payload bytes of a json or junk frame                        *)

\* encodeVarint of the registration client: unsigned LEB128
RECURSIVE encodeVarint(_)
encodeVarint(v) ==
    IF v >= 128 THEN <<(v % 128) + 128>> \o encodeVarint(v \div 128) ELSE <<v>>

\* a length-delimited field: tag (fieldNumber << 3) | 2, length, bytes
StringField(fieldNumber, bytes) ==
    <<fieldNumber * 8 + 2>> \o encodeVarint(Len(bytes)) \o bytes

\* the wire form of a delta (proto3: default values are not written)
EncodeDelta(f) ==
    LET inner ==
            (IF f.text # <<>> THEN StringField(1, Utf8Encode(f.text)) ELSE <<>>)
            \o (IF f.conv # <<>> THEN StringField(2, Utf8Encode(f.conv)) ELSE <<>>)
    IN  (IF inner # <<>> THEN StringField(1, inner) ELSE <<>>)
        \o (IF f.done THEN <<16, 1>> ELSE <<>>)
        \o (IF f.fq # <<>> THEN StringField(3, Utf8Encode(f.fq)) ELSE <<>>)

Body(f) == IF f.kind = "delta" THEN EncodeDelta(f) ELSE f.raw

Payload(f) == IF f.gz THEN Gzip(Body(f)) ELSE Body(f)

\* the envelope: flag byte, big-endian payload length, payload
FrameBytes(f) == <<f.flags>> \o WriteUInt32BE(Len(Payload(f))) \o Payload(f)

RECURSIVE BodyBytes(_)
BodyBytes(fs) == IF fs = <<>> THEN <<>> ELSE FrameBytes(Head(fs)) \o BodyBytes(Tail(fs))

Delta(flags, gz, text, conv, done, fq) ==
    [flags |-> flags, gz |-> gz, kind |-> "delta", text |-> text, conv |-> conv,
     done |-> done, fq |-> fq, raw |-> <<>>]

Raw(flags, gz, kind, raw) ==
    [flags |-> flags, gz |-> gz, kind |-> kind, text |-> <<>>, conv |-> <<>>,
     done |-> FALSE, fq |-> <<>>, raw |-> raw]

\* "Hello ", "world"
Hello == <<72, 101, 108, 108, 111, 32>>
World == <<119, 111, 114, 108, 100>>
\* "Q1\n" sent on the follow-up conversation "abc-FollowUp"
Q1 == <<81, 49, 10>>
ConvFollowup == <<97, 98, 99, 45, 70, 111, 108, 108, 111, 119, 85, 112>>
\* "Why?\nWhy?\n\nHow?"
WhyHow == <<87, 104, 121, 63, 10, 87, 104, 121, 63, 10, 10, 72, 111, 119, 63>>
\* "T" on the conversation "-followup2", with the blank block " \n"
Tee == <<84>>
ConvNear == <<45, 102, 111, 108, 108, 111, 119, 117, 112, 50>>
Blank == <<32, 10>>
\* "z" on the conversation "abc", with the block " Q2 \r\nQ1"
Zed == <<122>>
ConvAbc == <<97, 98, 99>>
Q2Q1 == <<32, 81, 50, 32, 13, 10, 81, 49>>
\* {"code":"internal","message":"x"}
JsonError ==
    <<123, 34, 99, 111, 100, 101, 34, 58, 34, 105, 110, 116, 101, 114, 110, 97, 108,
      34, 44, 34, 109, 101, 115, 115, 97, 103, 101, 34, 58, 34, 120, 34, 125>>
\* field 1 announcing 9 bytes of Response, of which only text_delta "X" is there
Truncated == <<10, 9, 10, 1, 88>>

\* a response with nothing in it: the frame is its header
EmptyFrame == Delta(0, FALSE, <<>>, <<>>, FALSE, <<>>)

\* a delta on the conversation "abc" with no text in it
EmptyDelta == Delta(0, FALSE, <<>>, ConvAbc, FALSE, <<>>)

Catalogue ==
    { Delta(0, FALSE, Hello, <<>>, FALSE, <<>>),
      Delta(0, FALSE, World, <<>>, TRUE, <<>>),
      Delta(1, TRUE, Q1, ConvFollowup, FALSE, <<>>),
      Delta(0, FALSE, <<>>, <<>>, FALSE, WhyHow),
      Delta(1, FALSE, Tee, ConvNear, FALSE, Blank),
      Delta(3, TRUE, Zed, ConvAbc, TRUE, Q2Q1),
      EmptyDelta,
      Raw(2, FALSE, "json", JsonError),
      Raw(0, FALSE, "junk", Truncated) }

Responses == UNION {[1..n -> Catalogue] : n \in 0..MaxFrames}

----------------------------------------------------------------------------
(* The calls *)

NotParsed == parseDeepwikiResponses(<<>>)

\* decimal digits of a natural number, as `${n}` writes them
RECURSIVE Digits(_)
Digits(n) == IF n < 10 THEN <<48 + n>> ELSE Digits(n \div 10) \o <<48 + (n % 10)>>

\* "OK", "Not Found"
TextOk == <<79, 75>>
TextNotFound == <<78, 111, 116, 32, 70, 111, 117, 110, 100>>

OkResponse == [status |-> 200, statusText |-> TextOk]

\* a slip: every status below 400 counts as a success
OkBelow400(r) == r.status >= 200 /\ r.status <= 399

\* response.ok of fetch: the status is in the range 200-299
Ok(r) == r.status >= 200 /\ r.status <= 299

NoError == <<>>

\* lines 372, 450: `DeepWiki 请求失败: ${response.status} ${response.statusText}`
RequestFailed(r) ==
    <<68, 101, 101, 112, 87, 105, 107, 105, 32, 35831, 27714, 22833, 36133, 58, 32>>
    \o Digits(r.status) \o <<32>> \o r.statusText

\* line 379: 'DeepWiki 返回为空，未解析到任何内容。'
EmptyResult ==
    <<68, 101, 101, 112, 87, 105, 107, 105, 32, 36820, 22238, 20026, 31354, 65292,
      26410, 35299, 26512, 21040, 20219, 20309, 20869, 23481, 12290>>

\* a call at the point where its response has come back with a 2xx status
Init ==
    /\ TwoIdle /\ IdsIdle /\ CtxIdle /\ FrameIdle /\ VarintIdle /\ FieldsIdle /\ UiIdle
    /\ response = OkResponse
    /\ error = NoError
    /\ frames \in Responses
    /\ data = BodyBytes(frames)
    /\ nread = 0
    /\ buffer = <<>>
    /\ events = <<>>
    /\ spc \in {"reading", "idle"}
    /\ bytewise = TRUE
    /\ bpc = IF spc = "idle" THEN "awaiting" ELSE "idle"
    /\ parsed = NotParsed
    /\ result = <<>>

\* a slip: the bytes of a frame not yet whole are not kept for the next read
ProcessedAfresh(r, after) ==
    /\ buffer' = <<>>
    /\ events' = events \o r.out
    /\ spc' = IF r.threw THEN "threw" ELSE after

\* the outcome of one run of processBuffer; `after` is the state the call is
\* in when the run did not throw
Processed(r, after) ==
    /\ buffer' = r.buffer
    /\ events' = events \o r.out
    /\ spc' = IF r.threw THEN "threw" ELSE after

\* lines 516-523: reader.read() hands out the next n bytes; they are appended
\* to the buffer and processBuffer runs
ReadChunk(n) ==
    /\ spc = "reading"
    /\ nread + n <= Len(data)
    /\ Processed(processBuffer(buffer \o SubSeq(data, nread + 1, nread + n)), "reading")
    /\ nread' = nread + n
    /\ bytewise' = (bytewise /\ n = 1)
    /\ UNCHANGED <<frames, data, bpc, parsed, result, response, error, others>>

\* lines 519, 524-525: the reader reports done; processBuffer runs once more
ReadDone ==
    /\ spc = "reading"
    /\ nread = Len(data)
    /\ Processed(processBuffer(buffer), "returned")
    /\ UNCHANGED <<frames, data, nread, bytewise, bpc, parsed, result, response, error,
                   others>>

\* lines 528-534: a body that cannot be read in chunks is awaited whole
ReadWhole ==
    /\ spc = "reading"
    /\ nread = 0
    /\ Processed(processBuffer(data), "returned")
    /\ nread' = Len(data)
    /\ bytewise' = FALSE
    /\ UNCHANGED <<frames, data, bpc, parsed, result, response, error, others>>

\* lines 377-381: an empty string is an error, anything else is returned
Fetched(p) ==
    /\ parsed' = p
    /\ result' = p.text
    /\ bpc' = IF p.text = <<>> THEN "threw" ELSE "returned"
    /\ error' = IF p.text = <<>> THEN EmptyResult ELSE error

\* lines 375-381: the whole body is parsed
FetchBody ==
    /\ bpc = "awaiting"
    /\ Fetched(parseDeepwikiResponses(data))
    /\ UNCHANGED <<frames, data, nread, buffer, events, spc, bytewise, response, others>>

Next ==
    \/ \E n \in 1..MaxChunk : ReadChunk(n)
    \/ ReadDone
    \/ ReadWhole
    \/ FetchBody

Spec == Init /\ [][Next]_vars

----------------------------------------------------------------------------
(* The calls from the moment the request is sent *)

Statuses == {200, 299, 300, 404}

HttpResponses == [status : Statuses, statusText : {TextOk, TextNotFound}]

\* the bodies that come with them; a body matters here only in that it is
\* read or left alone
HttpBodies == {fs \in Responses : Len(fs) < MaxFrames}

InitHttp ==
    /\ TwoIdle /\ IdsIdle /\ CtxIdle /\ FrameIdle /\ VarintIdle /\ FieldsIdle /\ UiIdle
    /\ response \in HttpResponses
    /\ error = NoError
    /\ frames \in HttpBodies
    /\ data = BodyBytes(frames)
    /\ nread = 0
    /\ buffer = <<>>
    /\ events = <<>>
    /\ spc \in {"connecting", "idle"}
    /\ bytewise = TRUE
    /\ bpc = IF spc = "idle" THEN "fetching" ELSE "idle"
    /\ parsed = NotParsed
    /\ result = <<>>

\* lines 436-452 and 459: connectAndFetch throws unless response.ok
Connect ==
    /\ spc = "connecting"
    /\ spc' = IF Ok(response) THEN "reading" ELSE "threw"
    /\ error' = IF Ok(response) THEN error ELSE RequestFailed(response)
    /\ UNCHANGED <<frames, data, nread, buffer, events, bytewise, bpc, parsed, result,
                   response, others>>

\* lines 357-373: fetchDeepwikiArticle throws unless response.ok
Respond ==
    /\ bpc = "fetching"
    /\ bpc' = IF Ok(response) THEN "awaiting" ELSE "threw"
    /\ error' = IF Ok(response) THEN error ELSE RequestFailed(response)
    /\ UNCHANGED <<frames, data, nread, buffer, events, spc, bytewise, parsed, result,
                   response, others>>

NextHttp == Connect \/ Respond \/ Next

SpecHttp == InitHttp /\ [][NextHttp]_vars

----------------------------------------------------------------------------
(* What the server sent, read off the frame descriptors *)

\* a payload the client can get back: gzip only under flag bit 0
Readable(f) == f.gz => f.flags % 2 = 1

IsData(f) == f.kind = "delta" /\ Readable(f)

ToLower(c) == IF c \in 65..90 THEN c + 32 ELSE c

\* the conversation id ends with "-followup", whatever the case of the letters
EndsWithFollowup(conv) ==
    /\ Len(conv) >= Len(FollowupSuffix)
    /\ \A j \in 1..Len(FollowupSuffix) :
          ToLower(conv[Len(conv) - Len(FollowupSuffix) + j]) = FollowupSuffix[j]

NonBlank(s) == \E i \in 1..Len(s) : ~IsWhiteSpace(s[i])

SentDone(f) == IF f.done THEN <<DoneMessage>> ELSE <<>>

SentText(f) ==
    IF f.text = <<>> THEN <<>>
    ELSE <<TextMessage(IF EndsWithFollowup(f.conv) THEN "followup" ELSE "article",
                       f.text)>>

SentBlock(f) == IF NonBlank(f.fq) THEN <<TextMessage("followup", f.fq)>> ELSE <<>>

\* the messages a frame stands for
Expected(f) == IF IsData(f) THEN SentDone(f) \o SentText(f) \o SentBlock(f) ELSE <<>>

RECURSIVE ExpectedAll(_)
ExpectedAll(fs) ==
    IF fs = <<>> THEN <<>> ELSE Expected(Head(fs)) \o ExpectedAll(Tail(fs))

\* the number of body bytes each frame of the catalogue takes
FrameLen == [f \in Catalogue \cup {EmptyFrame} |-> Len(FrameBytes(f))]

\* how many leading frames lie wholly within the first n bytes of the body
RECURSIVE CompleteCount(_, _)
CompleteCount(fs, n) ==
    IF fs = <<>> \/ FrameLen[Head(fs)] > n THEN 0
    ELSE 1 + CompleteCount(Tail(fs), n - FrameLen[Head(fs)])

RECURSIVE BodyLen(_)
BodyLen(fs) == IF fs = <<>> THEN 0 ELSE FrameLen[Head(fs)] + BodyLen(Tail(fs))

Arrived == SubSeq(frames, 1, CompleteCount(frames, nread))

RECURSIVE TextsOf(_)
TextsOf(es) == IF es = <<>> THEN <<>> ELSE <<Head(es).text>> \o TextsOf(Tail(es))

OfType(es, kind) == SelectSeq(es, LAMBDA e : e.type = kind)

\* the text_delta strings and the followup_questions blocks of the response
TextDeltas == {frames[i].text : i \in 1..Len(frames)}
Blocks == {frames[i].fq : i \in 1..Len(frames)}

Without(fs, kind) == SelectSeq(fs, LAMBDA f : f.kind # kind)

StreamOver == spc \in {"returned", "threw"}
FetchOver == bpc \in {"returned", "threw"}

----------------------------------------------------------------------------
(* C1: the buffered call fails with the empty-result error whenever no frame *)
(* carried article text, whether or not follow-up text was extracted.        *)

NoArticleSent ==
    \A i \in 1..Len(frames) : OfType(Expected(frames[i]), "article") = <<>>

\* C1 as claimed: once fetchDeepwikiArticle is over, a response without
\* article text has made it throw
C1_EmptyResultWithoutArticle == (FetchOver /\ NoArticleSent) => bpc = "threw"

----------------------------------------------------------------------------
(* C2: in streaming mode every message of frame N is delivered before any    *)
(* message of frame N+1, however the body is cut into chunks.                *)

\* C2: at every moment the messages delivered so far are the messages of the
\* frames that have wholly arrived, frame by frame in byte-stream order
C2_EventsInStreamOrder == (spc # "threw") => events = ExpectedAll(Arrived)

\* two frames with messages have been delivered out of unevenly cut chunks and
\* a third frame is partly buffered
C2_Witness ==
    /\ spc = "reading" /\ ~bytewise
    /\ Len(Arrived) = 2 /\ Expected(frames[1]) # <<>> /\ Expected(frames[2]) # <<>>
    /\ Expected(frames[1]) # Expected(frames[2])
    /\ buffer # <<>>
    /\ events = Expected(frames[1]) \o Expected(frames[2])

----------------------------------------------------------------------------
(* C3: fed one byte at a time the frame decoder never throws, and no message *)
(* of a frame is delivered before all 5 + length bytes of it are buffered.   *)

\* the bytes of the body that belong to no frame that has wholly arrived
Pending == SubSeq(data, BodyLen(Arrived) + 1, nread)

\* C3: with one-byte chunks the call has not thrown, the buffer holds exactly
\* the bytes of the frame still arriving and no message of that frame is out
C3_BytewiseWaitsForWholeFrames ==
    bytewise =>
        /\ spc # "threw"
        /\ buffer = Pending
        /\ Len(events) <= Len(ExpectedAll(Arrived))

\* one-byte feeding has delivered a frame and is inside the payload of the next
\* one, which carries messages that are not out yet
C3_Witness ==
    /\ bytewise /\ spc = "reading"
    /\ Len(Arrived) >= 1 /\ Len(Arrived) < Len(frames)
    /\ Len(buffer) > 5
    /\ Expected(frames[Len(Arrived) + 1]) # <<>>
    /\ events = ExpectedAll(Arrived) /\ events # <<>>

----------------------------------------------------------------------------
(* C4: a non-empty text_delta goes to the follow-up channel exactly when its *)
(* conversation_id ends with "-followup" (letters in any case), else to the  *)
(* article channel; the same in buffered and in streaming mode.              *)

RECURSIVE SentTexts(_, _)
SentTexts(fs, kind) ==
    IF fs = <<>> THEN <<>>
    ELSE (IF IsData(Head(fs)) THEN TextsOf(OfType(SentText(Head(fs)), kind)) ELSE <<>>)
         \o SentTexts(Tail(fs), kind)

\* the text_delta strings among a sequence of texts
DeltasIn(texts) == SelectSeq(texts, LAMBDA t : t \in TextDeltas)
\* the followup_questions blocks among a sequence of texts
BlocksIn(texts) == SelectSeq(texts, LAMBDA t : t \notin TextDeltas)

\* C4: the article messages (parts) are the text_delta strings sent on the
\* conversations not ending with "-followup", the text_delta strings among the
\* follow-up messages (parts) are those sent on the conversations ending with it
C4_ChannelByConversationSuffix ==
    /\ spc # "threw" =>
          /\ TextsOf(OfType(events, "article")) = SentTexts(Arrived, "article")
          /\ DeltasIn(TextsOf(OfType(events, "followup"))) = SentTexts(Arrived, "followup")
    /\ FetchOver =>
          /\ parsed.articleParts = SentTexts(frames, "article")
          /\ DeltasIn(parsed.followupParts) = SentTexts(frames, "followup")

\* a stream that carried text on "abc-FollowUp", on "-followup2" and on the
\* empty conversation id has been delivered
C4_Witness ==
    /\ spc = "returned"
    /\ TextDeltas \cap Blocks \subseteq {<<>>}
    /\ \E i, j, k \in 1..Len(frames) :
          /\ IsData(frames[i]) /\ frames[i].conv = ConvFollowup
          /\ IsData(frames[j]) /\ frames[j].conv = ConvNear
          /\ IsData(frames[k]) /\ frames[k].conv = <<>> /\ frames[k].text # <<>>
          /\ TextMessage("followup", frames[i].text) \in {events[e] : e \in 1..Len(events)}
          /\ TextMessage("article", frames[j].text) \in {events[e] : e \in 1..Len(events)}
          /\ TextMessage("article", frames[k].text) \in {events[e] : e \in 1..Len(events)}

----------------------------------------------------------------------------
(* C5: a frame whose payload is no ResponseDelta adds nothing and raises no  *)
(* error, and the frames around it are still decoded: with three frames of   *)
(* which only the second is undecodable, the article text is the text_delta  *)
(* of the first followed by that of the third.                               *)

IsArticleFrame(f) == IsData(f) /\ f.text # <<>> /\ ~EndsWithFollowup(f.conv)

CorruptMiddle ==
    /\ Len(frames) = 3
    /\ frames[2].kind = "junk"
    /\ IsArticleFrame(frames[1]) /\ IsArticleFrame(frames[3])

\* C5: neither call throws over an undecodable frame, and what comes out is
\* what the other frames stand for; in the three-frame case the article text
\* is text_delta 1 followed by text_delta 3
C5_UndecodableFrameSkipped ==
    /\ spc # "threw"
    /\ spc = "returned" => events = ExpectedAll(Without(frames, "junk"))
    /\ (spc = "returned" /\ CorruptMiddle) =>
          Flatten(TextsOf(OfType(events, "article"))) = frames[1].text \o frames[3].text
    /\ (FetchOver /\ CorruptMiddle) =>
          /\ bpc = "returned"
          /\ parsed.article = frames[1].text \o frames[3].text

\* the three-frame stream with a truncated message in the middle has been
\* streamed to its end
C5_Witness ==
    /\ spc = "returned" /\ CorruptMiddle
    /\ frames[2].raw = Truncated
    /\ frames[1].text # frames[3].text

----------------------------------------------------------------------------
(* C6: buffered finalization turns the follow-up accumulator into its lines  *)
(* (split on \r?\n), trimmed, empty ones dropped, duplicates removed keeping *)
(* the first occurrence and the order.                                       *)

\* the follow-up accumulator: followupParts.join('')
Accumulator == Flatten(parsed.followupParts)

\* the lines of s as index pairs: maximal stretches without a line feed
LineSpans(s) ==
    {sp \in (1..Len(s) + 1) \X (0..Len(s)) :
        /\ sp[2] >= sp[1] - 1
        /\ \A i \in sp[1]..sp[2] : s[i] # 10
        /\ sp[1] = 1 \/ s[sp[1] - 1] = 10
        /\ sp[2] = Len(s) \/ s[sp[2] + 1] = 10}

LineAt(s, sp) == Trim(SubSeq(s, sp[1], sp[2]))

\* where the trimmed line q first starts in s
FirstStart(s, q) == MinOf({sp[1] : sp \in {x \in LineSpans(s) : LineAt(s, x) = q}})

\* "Why?", "How?"
Why == <<87, 104, 121, 63>>
How == <<72, 111, 119, 63>>

\* C6: `unique` holds each non-empty trimmed line of the accumulator once, in
\* the order of first occurrence; "Why?\nWhy?\n\nHow?" gives "Why?", "How?"
C6_FollowupLinesUniqueInOrder ==
    FetchOver =>
        /\ {parsed.unique[i] : i \in 1..Len(parsed.unique)}
             = {LineAt(Accumulator, sp) : sp \in LineSpans(Accumulator)} \ {<<>>}
        /\ \A i, j \in 1..Len(parsed.unique) :
              i < j => FirstStart(Accumulator, parsed.unique[i])
                         < FirstStart(Accumulator, parsed.unique[j])
        /\ Accumulator = WhyHow => parsed.unique = <<Why, How>>

\* the accumulator "Why?\nWhy?\n\nHow?" has been finalized
C6_Witness ==
    /\ bpc = "returned"
    /\ Accumulator = WhyHow
    /\ parsed.unique = <<Why, How>>

----------------------------------------------------------------------------
(* C7: every data frame whose followup_questions is non-empty has that text  *)
(* appended as it is to the follow-up channel, whatever its conversation_id. *)

\* the followup_questions of the data frames, in order: the non-empty ones when
\* blanks is TRUE, those holding something other than white space otherwise
SentBlocks(fs, blanks) ==
    LET kept == SelectSeq(fs, LAMBDA f : /\ IsData(f)
                                         /\ IF blanks THEN f.fq # <<>> ELSE NonBlank(f.fq))
    IN  [i \in 1..Len(kept) |-> kept[i].fq]

\* C7 as claimed: the blocks on the follow-up channel are the non-empty
\* followup_questions of the data frames, unchanged and in order
C7_NonEmptyBlocksAppended ==
    /\ spc # "threw" =>
          BlocksIn(TextsOf(OfType(events, "followup"))) = SentBlocks(Arrived, TRUE)
    /\ FetchOver => BlocksIn(parsed.followupParts) = SentBlocks(frames, TRUE)

\* C7 as amended: the blocks on the follow-up channel are the followup_questions
\* holding something other than white space, unchanged and in order
C7_NonBlankBlocksAppended ==
    /\ spc # "threw" =>
          BlocksIn(TextsOf(OfType(events, "followup"))) = SentBlocks(Arrived, FALSE)
    /\ FetchOver => BlocksIn(parsed.followupParts) = SentBlocks(frames, FALSE)

\* a block sent on the article conversation "abc" has reached the follow-up
\* channel untrimmed, and a white-space block has been dropped
C7_Witness ==
    /\ spc = "returned"
    /\ TextDeltas \cap Blocks \subseteq {<<>>}
    /\ \E i, j \in 1..Len(frames) :
          /\ IsData(frames[i]) /\ frames[i].conv = ConvAbc /\ frames[i].fq = Q2Q1
          /\ IsData(frames[j]) /\ frames[j].fq = Blank
          /\ TextMessage("followup", Q2Q1) \in {events[e] : e \in 1..Len(events)}
          /\ TextMessage("followup", Blank) \notin {events[e] : e \in 1..Len(events)}

----------------------------------------------------------------------------
(* C8: a frame with flag bit 0 set whose payload fails to gunzip is handled  *)
(* as the same payload under a clear bit 0; no error, later frames go on.    *)

FallsBack(f) == f.flags % 2 = 1 /\ ~IsGzip(Payload(f))

ClearBit0(f) == IF FallsBack(f) THEN [f EXCEPT !.flags = f.flags - 1] ELSE f

RECURSIVE Cleared(_)
Cleared(fs) == IF fs = <<>> THEN <<>> ELSE <<ClearBit0(Head(fs))>> \o Cleared(Tail(fs))

\* C8: what either call makes of the response is what it makes of the same
\* response with bit 0 cleared on the frames that fail to gunzip, and the
\* messages of those frames are out
C8_GunzipFailureReadsRaw ==
    /\ spc # "threw"
    /\ spc = "returned" =>
          /\ events = processBuffer(BodyBytes(Cleared(frames))).out
          /\ \A i \in 1..Len(frames) :
                FallsBack(frames[i]) =>
                    \A m \in {Expected(frames[i])[e] : e \in 1..Len(Expected(frames[i]))} :
                        m \in {events[e] : e \in 1..Len(events)}
    /\ FetchOver => parsed = parseDeepwikiResponses(BodyBytes(Cleared(frames)))

\* a frame flagged compressed but not gzip has been streamed, its text is out
\* and so is the text of the frame after it
C8_Witness ==
    /\ spc = "returned"
    /\ \E i \in 1..Len(frames) - 1 :
          /\ FallsBack(frames[i]) /\ frames[i].text = Tee
          /\ TextMessage("article", Tee) \in {events[e] : e \in 1..Len(events)}
          /\ Expected(frames[i + 1]) # <<>>
          /\ Expected(frames[i + 1])[1] \in {events[e] : e \in 1..Len(events)}

----------------------------------------------------------------------------
(* C9: a frame whose payload, as left-trimmed text, starts with "{" or "["   *)
(* adds no text and no message, raises nothing, and does not stop the loop.  *)

\* C9: neither call throws over a JSON frame and what comes out is what the
\* other frames stand for, those after the JSON frame included
C9_JsonFrameIgnored ==
    /\ spc # "threw"
    /\ spc = "returned" => events = ExpectedAll(Without(frames, "json"))
    /\ FetchOver =>
          /\ parsed.articleParts = SentTexts(Without(frames, "json"), "article")
          /\ DeltasIn(parsed.followupParts)
                = SentTexts(Without(frames, "json"), "followup")
          /\ (parsed.articleParts # <<>> => bpc = "returned")

\* a body that opens with the JSON error frame and goes on with article text
\* has been parsed
C9_Witness ==
    /\ bpc = "returned"
    /\ Len(frames) >= 2
    /\ frames[1].kind = "json" /\ frames[1].raw = JsonError
    /\ IsArticleFrame(frames[2])
    /\ parsed.articleParts # <<>> /\ parsed.articleParts[1] = frames[2].text

----------------------------------------------------------------------------
(* C10: the buffered result is the article text followed by a follow-up      *)
(* section (rule, header, one line per follow-up) exactly when a follow-up   *)
(* line remains; otherwise it is the concatenated article text_deltas.       *)

\* "\n\n---\n\n" and the header
SectionHead == <<10, 10, 45, 45, 45, 10, 10, 21518, 32493, 25552, 38382>>

RECURSIVE SectionLines(_)
SectionLines(qs) ==
    IF qs = <<>> THEN <<>> ELSE <<10, 45, 32>> \o Head(qs) \o SectionLines(Tail(qs))

\* "Hello world"
HelloWorld == <<72, 101, 108, 108, 111, 32, 119, 111, 114, 108, 100>>

TwoFrameArticle ==
    frames = <<Delta(0, FALSE, Hello, <<>>, FALSE, <<>>),
               Delta(0, FALSE, World, <<>>, TRUE, <<>>)>>

\* C10: the returned string is the article text_deltas in order, then, only when
\* follow-up lines remain, the section; "Hello " and "world" give "Hello world"
C10_ResultIsArticleThenSection ==
    bpc = "returned" =>
        /\ result = Flatten(SentTexts(frames, "article"))
                    \o (IF parsed.unique = <<>> THEN <<>>
                        ELSE SectionHead \o SectionLines(parsed.unique))
        /\ TwoFrameArticle => (result = HelloWorld /\ parsed.isArticleDoneSeen)

\* the two frames "Hello " and "world" have been fetched
C10_Witness == bpc = "returned" /\ TwoFrameArticle /\ result = HelloWorld

----------------------------------------------------------------------------
(* The request frame and the frame reader, one frame at a time *)

\* lines 427-430: 1 + 4 + length bytes: the flag, the length, the payload
writeFrame(flag, payload) == <<flag>> \o WriteUInt32BE(Len(payload)) \o payload

\* lines 424-431: the request is gzipped and framed under flag 0x01
buildDeepwikiRequestFrame(requestBytes) == writeFrame(1, Gzip(requestBytes))

\* lines 506-509: a whole frame is at the front of the buffer
sliceable(w, len) == len.ok /\ ~(len.val < 0 \/ Len(w) - 5 < len.val)

\* lines 507, 510: what decodeFrame is handed
sliced(w, len) == [flags |-> w[1], payload |-> SubSeq(w, 6, 5 + len.val)]

PayloadBytes == {0, 1, 255}

\* a payload whose length does not fit one byte
LongPayload == [i \in 1..260 |-> i % 256]

Payloads == UNION {[1..n -> PayloadBytes] : n \in 0..MaxPayload} \cup {LongPayload}

InitFrame ==
    /\ sent \in [bytes : Payloads, how : {"request", "flag0", "flag1"}]
    /\ wire = <<>>
    /\ delivered = <<>>
    /\ TwoIdle /\ IdsIdle /\ CtxIdle /\ VarintIdle /\ FieldsIdle /\ UiIdle
    /\ response = None /\ error = None
    /\ frames = None /\ data = None /\ nread = None /\ buffer = None /\ events = None
    /\ spc = None /\ bytewise = None /\ bpc = None /\ parsed = None /\ result = None

restOfFrame == <<callVars, response, error, twoVars, idVars, ctxVars, varintVars, fieldVars, uiVars>>

\* lines 424-431
BuildRequest ==
    /\ wire = <<>> /\ delivered = <<>> /\ sent.how = "request"
    /\ wire' = buildDeepwikiRequestFrame(sent.bytes)
    /\ UNCHANGED <<sent, delivered, restOfFrame>>

\* the same layout under either flag
WriteFrame ==
    /\ wire = <<>> /\ delivered = <<>> /\ sent.how # "request"
    /\ wire' = writeFrame(IF sent.how = "flag1" THEN 1 ELSE 0, sent.bytes)
    /\ UNCHANGED <<sent, delivered, restOfFrame>>

Sliced(w, len) ==
    /\ sliceable(w, len)
    /\ delivered' = Append(delivered, sliced(w, len))
    /\ wire' = SubSeq(w, 6 + len.val, Len(w))

\* lines 506-512: one turn of the loop of processBuffer
SliceFrame ==
    /\ Len(wire) >= 5
    /\ Sliced(wire, ReadUInt32BE(wire, 1))
    /\ UNCHANGED <<sent, restOfFrame>>

NextFrame == BuildRequest \/ WriteFrame \/ SliceFrame

SpecFrame == InitFrame /\ [][NextFrame]_vars

----------------------------------------------------------------------------
(* C12: the layout the request builder writes (flag, big-endian length,      *)
(* payload) is read back by the frame reader as one frame with the same      *)
(* flags and payload and nothing left; the request is one such frame with    *)
(* flag 0x01 over the gzipped bytes.                                         *)

SentFlag == IF sent.how = "flag0" THEN 0 ELSE 1

SentPayload ==
    IF sent.how = "request"
    THEN <<31, 139, 8>> \o sent.bytes \o <<Len(sent.bytes) % 256>>
    ELSE sent.bytes

\* C12: what has been written is flag, 4-byte big-endian length and payload, and
\* nothing else; what has been read back is one frame, the flag and the payload
\* that went in, with no byte left in the buffer; a request is under flag 1 and
\* its payload gunzips to the request bytes
C12_FrameRoundTrip ==
    (wire # <<>> \/ delivered # <<>>) =>
        \/ /\ delivered = <<>>
           /\ Len(wire) = 5 + Len(SentPayload)
           /\ wire[1] = SentFlag
           /\ wire[2] * 16777216 + wire[3] * 65536 + wire[4] * 256 + wire[5]
                 = Len(SentPayload)
           /\ SubSeq(wire, 6, Len(wire)) = SentPayload
           /\ sent.bytes # LongPayload => processBuffer(wire).buffer = <<>>
        \/ /\ delivered = <<[flags |-> SentFlag, payload |-> SentPayload]>>
           /\ wire = <<>>
           /\ sent.how = "request" =>
                 /\ delivered[1].flags = 1
                 /\ GunzipSync(delivered[1].payload) = [ok |-> TRUE, bytes |-> sent.bytes]

\* the request frame over a 260-byte body has been read back
C12_Witness ==
    /\ sent.how = "request" /\ sent.bytes = LongPayload
    /\ wire = <<>>
    /\ Len(delivered) = 1 /\ Len(delivered[1].payload) = 264

----------------------------------------------------------------------------
(* The varints of the registration client.  A 32-bit word is kept as its two *)
(* 16-bit halves, for the numbers between 2^31 and 2^32 - 1 to have a place. *)

Word(hi, lo) == [hi |-> hi, lo |-> lo]

RECURSIVE Pow2(_)
Pow2(n) == IF n = 0 THEN 1 ELSE 2 * Pow2(n - 1)

\* a | b on 16 bits
RECURSIVE BitOr(_, _)
BitOr(a, b) ==
    IF a = 0 THEN b
    ELSE IF b = 0 THEN a
    ELSE (IF a % 2 = 1 \/ b % 2 = 1 THEN 1 ELSE 0) + 2 * BitOr(a \div 2, b \div 2)

\* v >>> 7
Shr7(w) == Word(w.hi \div 128, (w.lo \div 128) + (w.hi % 128) * 512)

\* lines 23-32: encodeVarint on the whole range of value >>> 0
RECURSIVE encodeVarint32(_)
encodeVarint32(v) ==
    IF v.hi > 0 \/ v.lo >= 128
    THEN <<(v.lo % 128) + 128>> \o encodeVarint32(Shr7(v))
    ELSE <<v.lo>>

\* x << shift for x below 128: the shift count is taken modulo 32 and the bits
\* leaving the 32-bit word are lost
ShiftLeft(x, shift) ==
    LET k == shift % 32
    IN  IF k < 16
        THEN Word((x * Pow2(k)) \div 65536, (x * Pow2(k)) % 65536)
        ELSE Word((x * Pow2(k - 16)) % 65536, 0)

\* a | b on 32 bits
Or32(a, b) == Word(BitOr(a.hi, b.hi), BitOr(a.lo, b.lo))

\* the number a 32-bit word stands for after `|`: a signed one
ToInt32(w) == (IF w.hi >= 32768 THEN w.hi - 65536 ELSE w.hi) * 65536 + w.lo

\* lines 50-62 and 85-97: the length read at offset; ok is FALSE when the buffer
\* ends within it
RECURSIVE readLength(_, _, _, _)
readLength(bytes, offset, length, shift) ==
    IF offset >= Len(bytes) THEN [ok |-> FALSE, length |-> 0, offset |-> offset]
    ELSE LET b == bytes[offset + 1]
             l == Or32(length, ShiftLeft(b % 128, shift))
         IN  IF b < 128 THEN [ok |-> TRUE, length |-> ToInt32(l), offset |-> offset + 1]
             ELSE readLength(bytes, offset + 1, l, shift + 7)

Halves == {0, 1, 127, 128, 255, 256, 16383, 16384, 32767, 32768, 65535}

InitVarint ==
    /\ varintIn \in {Word(hi, lo) : hi \in {0, 1, 32767, 32768, 65535}, lo \in Halves}
    /\ varintBytes = <<>>
    /\ varintOut = [done |-> FALSE, ok |-> FALSE, length |-> 0, offset |-> 0]
    /\ TwoIdle /\ IdsIdle /\ CtxIdle /\ FrameIdle /\ FieldsIdle /\ UiIdle
    /\ response = None /\ error = None
    /\ frames = None /\ data = None /\ nread = None /\ buffer = None /\ events = None
    /\ spc = None /\ bytewise = None /\ bpc = None /\ parsed = None /\ result = None

restOfVarint == <<callVars, response, error, twoVars, idVars, ctxVars, frameVars, fieldVars, uiVars>>

\* lines 23-32
EncodeVarint ==
    /\ varintBytes = <<>>
    /\ varintBytes' = encodeVarint32(varintIn)
    /\ UNCHANGED <<varintIn, varintOut, restOfVarint>>

Read(r) == varintOut' = [done |-> TRUE, ok |-> r.ok, length |-> r.length, offset |-> r.offset]

\* lines 50-62: the length loop over the encoded bytes
ReadLength ==
    /\ varintBytes # <<>> /\ ~varintOut.done
    /\ Read(readLength(varintBytes, 0, Word(0, 0), 0))
    /\ UNCHANGED <<varintIn, varintBytes, restOfVarint>>

NextVarint == EncodeVarint \/ ReadLength

SpecVarint == InitVarint /\ [][NextVarint]_vars

----------------------------------------------------------------------------
(* C13: for n in {0, 1, 127, 128, 16383, 16384, 2^32 - 1} the length reader  *)
(* of the field decoders gives n back from the bytes of encodeVarint(n).     *)

\* 0, 1, 127, 128, 16383, 16384 and 2^32 - 1
Listed ==
    {Word(0, 0), Word(0, 1), Word(0, 127), Word(0, 128), Word(0, 16383),
     Word(0, 16384), Word(65535, 65535)}

\* the number n is the number the word w stands for, read without a sign
SameNumber(n, w) == w.hi < 32768 /\ n = w.hi * 65536 + w.lo

\* C13 as claimed: once the bytes of a listed number have been read back, the
\* reader has come to their end with that number as the length
C13_VarintRoundTrip ==
    (varintOut.done /\ varintIn \in Listed) =>
        /\ varintOut.ok
        /\ varintOut.offset = Len(varintBytes)
        /\ SameNumber(varintOut.length, varintIn)

\* the same for the listed numbers below 2^31
C13_RoundTripBelow2G ==
    (varintOut.done /\ varintIn.hi < 32768) =>
        /\ varintOut.ok
        /\ varintOut.offset = Len(varintBytes)
        /\ SameNumber(varintOut.length, varintIn)

\* 2^32 - 1 has been written as ff ff ff ff 0f and read back as -1
C13_MinusOne ==
    /\ varintIn = Word(65535, 65535)
    /\ varintBytes = <<255, 255, 255, 255, 15>>
    /\ varintOut.done /\ varintOut.ok /\ varintOut.length = -1

----------------------------------------------------------------------------
(* Two streaming calls at once.  Each call of streamDeepwikiArticle has its  *)
(* own `buffer`, `decodeFrame` and `processBuffer` (lines 461-514 are inside *)
(* the function); the chunks of the two responses arrive in any order.       *)

Callers == {1, 2}

TwoCatalogue ==
    {Delta(0, FALSE, Hello, <<>>, FALSE, <<>>), Delta(0, FALSE, World, <<>>, TRUE, <<>>)}

TwoBodies == UNION {[1..n -> TwoCatalogue] : n \in 0..MaxTwoFrames}

Started(fs) ==
    [frames |-> fs, data |-> BodyBytes(fs), nread |-> 0, buffer |-> <<>>,
     events |-> <<>>, pc |-> "reading"]

InitTwo ==
    /\ calls \in {[c \in Callers |-> Started(b[c])] : b \in [Callers -> TwoBodies]}
    /\ IdsIdle /\ CtxIdle /\ FrameIdle /\ VarintIdle /\ FieldsIdle /\ UiIdle
    /\ response = None /\ error = None
    /\ frames = None /\ data = None /\ nread = None /\ buffer = None /\ events = None
    /\ spc = None /\ bytewise = None /\ bpc = None /\ parsed = None /\ result = None

restOfTwo == <<callVars, response, error, idVars, ctxVars, frameVars, varintVars, fieldVars, uiVars>>

\* a slip: `buffer` is one variable of the module, the one call 1 writes
bufferOfModule(c) == calls[1].buffer

\* line 504: `buffer` is a local of the call
bufferOf(c) == calls[c].buffer

\* the outcome of one run of processBuffer in call c after n more bytes
ProcessedIn(c, r, n, after) ==
    calls' = [calls EXCEPT ![c] =
                [@ EXCEPT !.buffer = r.buffer,
                          !.events = @ \o r.out,
                          !.nread = @ + n,
                          !.pc = IF r.threw THEN "threw" ELSE after]]

\* lines 516-523 in call c
CallReadChunk(c, n) ==
    /\ calls[c].pc = "reading"
    /\ calls[c].nread + n <= Len(calls[c].data)
    /\ ProcessedIn(c, processBuffer(bufferOf(c) \o SubSeq(calls[c].data, calls[c].nread + 1,
                                                          calls[c].nread + n)),
                   n, "reading")
    /\ UNCHANGED restOfTwo

\* lines 519, 524-525 in call c
CallReadDone(c) ==
    /\ calls[c].pc = "reading"
    /\ calls[c].nread = Len(calls[c].data)
    /\ ProcessedIn(c, processBuffer(bufferOf(c)), 0, "returned")
    /\ UNCHANGED restOfTwo

NextTwo ==
    \E c \in Callers :
        \/ \E n \in 1..MaxChunk : CallReadChunk(c, n)
        \/ CallReadDone(c)

SpecTwo == InitTwo /\ [][NextTwo]_vars

----------------------------------------------------------------------------
(* C14: two streaming calls running at once, their chunks interleaved in any *)
(* order, each deliver exactly the messages the call would deliver alone.    *)

\* what a call alone has made of the first n bytes of its body
Alone(body, n) == processBuffer(SubSeq(body, 1, n))

AsAlone(call, alone) ==
    /\ call.pc # "threw"
    /\ call.events = alone.out
    /\ call.buffer = alone.buffer

\* C14: at every moment each call has delivered the messages, and holds the
\* bytes, that a call alone has after the same bytes of its own response
C14_CallsDoNotInterfere ==
    \A c \in Callers : AsAlone(calls[c], Alone(calls[c].data, calls[c].nread))

\* both calls are in the middle of their second frame, each having delivered
\* the messages of its first, and the two differ in what they have delivered
C14_Witness ==
    /\ \A c \in Callers :
          /\ calls[c].pc = "reading"
          /\ calls[c].events # <<>> /\ calls[c].buffer # <<>>
    /\ calls[1].events # calls[2].events

----------------------------------------------------------------------------
(* The ids of the request metadata.  crypto.randomBytes(16) is a draw from a *)
(* small pool; the Memento returns from get what the last update stored.     *)

RandomBytes == {1, 2, 3}

Undefined == [shape |-> "undefined", r |-> 0]
EmptyString == [shape |-> "string", r |-> 0]

\* lines 29-32: version and variant bits set, hex in groups 8-4-4-4-12
Uuid(r) == [shape |-> "uuid", r |-> r]

\* lines 40-43: version and variant bits set, 32 hex digits without hyphens
Hex32(r) == [shape |-> "hex32", r |-> r]

\* !id
Falsy(id) == id = Undefined \/ id = EmptyString

\* a slip: a new id is made on every request
ensureWorkspaceIdAnew(state, r) ==
    [id |-> Uuid(r),
     state |-> [state EXCEPT !.workspaceId = Uuid(r),
                             !.updates = Append(@, [key |-> "workspaceId",
                                                    value |-> Uuid(r)])]]

\* lines 24-36: the stored id, or a new one that is stored at once
ensureWorkspaceId(state, r) ==
    IF Falsy(state.workspaceId)
    THEN [id |-> Uuid(r),
          state |-> [state EXCEPT !.workspaceId = Uuid(r),
                                  !.updates = Append(@, [key |-> "workspaceId",
                                                         value |-> Uuid(r)])]]
    ELSE [id |-> state.workspaceId, state |-> state]

\* lines 38-44
generateSessionId(r) == Hex32(r)

\* the extension host at start: globalState.ts not yet initialized, the Memento
\* with or without a workspace id from an earlier run
InitIds ==
    /\ globalState \in [ready : {FALSE}, atStart : {Undefined, EmptyString, Uuid(1)},
                        workspaceId : {Undefined}, updates : {<<>>}]
    /\ requests = <<>>
    /\ TwoIdle /\ CtxIdle /\ FrameIdle /\ VarintIdle /\ FieldsIdle /\ UiIdle
    /\ response = None /\ error = None
    /\ frames = None /\ data = None /\ nread = None /\ buffer = None /\ events = None
    /\ spc = None /\ bytewise = None /\ bpc = None /\ parsed = None /\ result = None

restOfIds == <<callVars, response, error, twoVars, ctxVars, frameVars, varintVars, fieldVars, uiVars>>

\* globalState.ts lines 5-7: initGlobalState(context)
InitGlobalState ==
    /\ ~globalState.ready
    /\ globalState' = [globalState EXCEPT !.ready = TRUE,
                                       !.workspaceId = globalState.atStart]
    /\ UNCHANGED <<requests, restOfIds>>

\* lines 333, 336 (409, 412): the ids that go into the metadata
Metadata(w, sessionId) ==
    /\ requests' = Append(requests, [workspace_id |-> w.id, session_id |-> sessionId,
                                     stored |-> globalState.workspaceId])
    /\ globalState' = w.state

\* lines 320-346 and 397-422: one request is built; this code runs from its
\* first line to the fetch without an await
BuildMetadata(rs, rw) ==
    /\ globalState.ready
    /\ Len(requests) < MaxRequests
    /\ Metadata(ensureWorkspaceId(globalState, rw), generateSessionId(rs))
    /\ UNCHANGED restOfIds

NextIds == InitGlobalState \/ \E rs, rw \in RandomBytes : BuildMetadata(rs, rw)

SpecIds == InitIds /\ [][NextIds]_vars

----------------------------------------------------------------------------
(* C15: the workspace id is created only when none is stored and is stable   *)
(* from the first request on; the session id is made anew for each request   *)
(* and never stored.                                                         *)

\* C15: a request that found an id stored sends that id; one that found none
\* sends a new id, which is stored; all requests send the same workspace id,
\* the one now stored; nothing but one workspace id is ever written to the
\* Memento, and every session id is a 32-digit hex string of its own draw
C15_WorkspaceIdStable ==
    /\ \A i \in 1..Len(requests) :
          /\ ~Falsy(requests[i].stored) => requests[i].workspace_id = requests[i].stored
          /\ requests[i].workspace_id = globalState.workspaceId
          /\ requests[i].workspace_id.shape = "uuid"
          /\ requests[i].session_id.shape = "hex32"
          /\ \A j \in 1..Len(requests) : requests[j].workspace_id = requests[i].workspace_id
    /\ Len(globalState.updates) <= 1
    /\ Len(globalState.updates) = 1 <=>
          (Falsy(globalState.atStart) /\ requests # <<>>)
    /\ \A u \in 1..Len(globalState.updates) :
          /\ globalState.updates[u].key = "workspaceId"
          /\ globalState.updates[u].value = requests[1].workspace_id
          /\ Falsy(requests[1].stored)
    /\ ~Falsy(globalState.atStart) /\ globalState.ready
          => globalState.workspaceId = globalState.atStart

\* three requests have gone out from an extension that had no id stored: one
\* workspace id, made by the first, and three session ids that are not all equal
C15_Witness ==
    /\ Len(requests) = 3
    /\ globalState.atStart = Undefined
    /\ Falsy(requests[1].stored) /\ requests[2].stored = requests[1].workspace_id
    /\ requests[1].workspace_id = requests[3].workspace_id
    /\ requests[1].session_id # requests[2].session_id
    /\ requests[2].session_id = requests[3].session_id

----------------------------------------------------------------------------
(* The context string of the request.  A section is absent (undefined) or a  *)
(* string, written as its code units.                                        *)

Absent == [defined |-> FALSE, text |-> <<>>]
String(t) == [defined |-> TRUE, text |-> t]

\* "", "a", "\n" and "b c"
SectionTexts == {<<>>, <<97>>, <<10>>, <<98, 32, 99>>}
Sections == {Absent} \cup {String(t) : t \in SectionTexts}

\* if (params.x): undefined and '' are falsy
Truthy(section) == section.defined /\ section.text # <<>>

RECURSIVE join(_, _)
\* Array.prototype.join
join(sections, separator) ==
    IF sections = <<>> THEN <<>>
    ELSE IF Len(sections) = 1 THEN Head(sections)
    ELSE Head(sections) \o separator \o join(Tail(sections), separator)

\* sections.push(x) under if (x)
push(sections, section) ==
    IF Truthy(section) THEN Append(sections, section.text) ELSE sections

\* a slip: all five sections are joined, the missing ones as ''
buildContextTextOfAll(params) ==
    join(<<params.fileContext.text, params.usageContext.text,
           params.traceContext.text, params.quickGrepContext.text,
           params.fullGrepContext.text>>, <<10, 10>>)

\* lines 78-96
buildContextText(params) ==
    join(push(push(push(push(push(<<>>, params.fileContext), params.usageContext),
                        params.traceContext), params.quickGrepContext),
              params.fullGrepContext), <<10, 10>>)

InitContext ==
    /\ ctxParams \in [fileContext : Sections, usageContext : Sections,
                      traceContext : Sections, quickGrepContext : Sections,
                      fullGrepContext : Sections]
    /\ contextText = [built |-> FALSE, text |-> <<>>]
    /\ TwoIdle /\ IdsIdle /\ FrameIdle /\ VarintIdle /\ FieldsIdle /\ UiIdle
    /\ response = None /\ error = None
    /\ frames = None /\ data = None /\ nread = None /\ buffer = None /\ events = None
    /\ spc = None /\ bytewise = None /\ bpc = None /\ parsed = None /\ result = None

restOfContext == <<callVars, response, error, twoVars, idVars, frameVars, varintVars, fieldVars, uiVars>>

\* line 343 (418): context: buildContextText(params)
BuildContextText ==
    /\ ~contextText.built
    /\ contextText' = [built |-> TRUE, text |-> buildContextText(ctxParams)]
    /\ UNCHANGED <<ctxParams, restOfContext>>

NextContext == BuildContextText

SpecContext == InitContext /\ [][NextContext]_vars

----------------------------------------------------------------------------
(* C16: the context is the non-empty sections in the order file, usage,      *)
(* trace, quick-grep, full-grep with one blank line between neighbours.      *)

SectionOrder ==
    <<"fileContext", "usageContext", "traceContext", "quickGrepContext", "fullGrepContext">>

\* the text section i contributes: nothing when it is absent or empty
Contribution(params, i) ==
    IF params[SectionOrder[i]].defined THEN params[SectionOrder[i]].text ELSE <<>>

RECURSIVE PlaceOf(_, _)
\* the length of the context up to and including section i
PlaceOf(params, i) ==
    IF i = 0 THEN 0
    ELSE IF Contribution(params, i) = <<>> THEN PlaceOf(params, i - 1)
    ELSE IF PlaceOf(params, i - 1) = 0 THEN Len(Contribution(params, i))
    ELSE PlaceOf(params, i - 1) + 2 + Len(Contribution(params, i))

\* C16: each non-empty section stands in the context at the place that the
\* non-empty sections before it and one "\n\n" per neighbour leave it, the
\* two characters before every section but the first are "\n\n", and the
\* context ends with the last non-empty section
C16_ContextJoinsSections ==
    contextText.built =>
        /\ Len(contextText.text) = PlaceOf(ctxParams, 5)
        /\ \A i \in 1..5 :
              Contribution(ctxParams, i) # <<>> =>
                  /\ SubSeq(contextText.text,
                            PlaceOf(ctxParams, i) - Len(Contribution(ctxParams, i)) + 1,
                            PlaceOf(ctxParams, i)) = Contribution(ctxParams, i)
                  /\ PlaceOf(ctxParams, i - 1) > 0 =>
                        SubSeq(contextText.text, PlaceOf(ctxParams, i - 1) + 1,
                               PlaceOf(ctxParams, i - 1) + 2) = <<10, 10>>

\* a context built from an absent file section, an empty trace section and
\* three sections with text: "a", blank line, "b c", blank line, "a"
C16_Witness ==
    /\ contextText.built
    /\ ctxParams.fileContext = Absent
    /\ ctxParams.traceContext = String(<<>>)
    /\ contextText.text = <<97, 10, 10, 98, 32, 99, 10, 10, 97>>

----------------------------------------------------------------------------
(* The field decoders of the registration client.  A call that never leaves  *)
(* its loop is written as the outcome "hang": the offset is the whole state  *)
(* of the scan, so a scan that comes back to an offset goes round for ever.  *)

\* 0x0a and 0x12 are the tags of the length-delimited fields 1 and 2, 0x02 that
\* of field 0; 0, 1 and 200 are tags of other wire types, lengths or text
FieldBytes == {0, 1, 2, 10, 18, 200}

RECURSIVE BytesUpTo(_)
BytesUpTo(n) ==
    IF n = 0 THEN {<<>>}
    ELSE BytesUpTo(n - 1)
         \cup {Append(b, x) : b \in {s \in BytesUpTo(n - 1) : Len(s) = n - 1},
                              x \in FieldBytes}

\* the last field of a buffer: none; field 1 = "a"; field 1 and field 2 with
\* the lengths 2^32 - 1 and 2^32 - 6; field 1 with the length 2^32 - 7 and two
\* more bytes
LastFields ==
    {<<>>, <<10, 1, 97>>,
     <<10, 255, 255, 255, 255, 15>>,
     <<18, 250, 255, 255, 255, 15>>,
     <<10, 249, 255, 255, 255, 15, 97, 10>>}

Buffers == {b \o f : b \in BytesUpTo(MaxBuf), f \in LastFields}

\* buf[offset], and what `>>` and `&` make of undefined
byteAt(buf, offset) == IF offset >= 0 /\ offset < Len(buf) THEN buf[offset + 1] ELSE 0

\* Uint8Array.prototype.slice: a negative index counts from the end
sliceIndex(buf, k) ==
    IF k < 0 THEN (IF Len(buf) + k < 0 THEN 0 ELSE Len(buf) + k)
    ELSE IF k > Len(buf) THEN Len(buf) ELSE k

slice(buf, start, end) == SubSeq(buf, sliceIndex(buf, start) + 1, sliceIndex(buf, end))

NotFound == [kind |-> "undefined", value |-> <<>>]
Found(valueBytes) == [kind |-> "string", value |-> ToStringUtf8(valueBytes)]
Hang == [kind |-> "hang", value |-> <<>>]

RECURSIVE firstStringFieldFrom(_, _, _)
\* lines 43-71: the loop of decodeFirstStringField from the offset on; seen are
\* the offsets the loop has started from
firstStringFieldFrom(buf, offset, seen) ==
    IF offset \in seen THEN Hang
    ELSE IF ~(offset < Len(buf)) THEN NotFound
    ELSE LET key == byteAt(buf, offset)
             fieldNumber == key \div 8
             wireType == key % 8
             r == readLength(buf, offset + 1, Word(0, 0), 0)
         IN  IF wireType # 2 THEN NotFound
             ELSE IF ~r.ok THEN NotFound
             ELSE IF r.offset + r.length > Len(buf) THEN NotFound
             ELSE IF fieldNumber = 1
                  THEN Found(slice(buf, r.offset, r.offset + r.length))
             ELSE firstStringFieldFrom(buf, r.offset + r.length, seen \cup {offset})

\* lines 41-73
decodeFirstStringField(buf) == firstStringFieldFrom(buf, 0, {})

\* out[fieldNumber] = value
Put(out, fieldNumber, value) ==
    [n \in DOMAIN out \cup {fieldNumber} |-> IF n = fieldNumber THEN value ELSE out[n]]

NoFields == [n \in {} |-> <<>>]

RECURSIVE stringFieldsFrom(_, _, _, _)
\* lines 77-104: the loop of decodeStringFields
stringFieldsFrom(buf, offset, out, seen) ==
    IF offset \in seen THEN [kind |-> "hang", out |-> out]
    ELSE IF ~(offset < Len(buf)) THEN [kind |-> "map", out |-> out]
    ELSE LET key == byteAt(buf, offset)
             fieldNumber == key \div 8
             wireType == key % 8
             r == readLength(buf, offset + 1, Word(0, 0), 0)
         IN  IF wireType # 2 THEN [kind |-> "map", out |-> out]
             ELSE IF ~r.ok THEN [kind |-> "map", out |-> out]
             ELSE IF r.offset + r.length > Len(buf) THEN [kind |-> "map", out |-> out]
             ELSE stringFieldsFrom(buf, r.offset + r.length,
                      Put(out, fieldNumber,
                          ToStringUtf8(slice(buf, r.offset, r.offset + r.length))),
                      seen \cup {offset})

\* lines 75-106
decodeStringFields(buf) == stringFieldsFrom(buf, 0, NoFields, {})

InitFields ==
    /\ regBuf \in Buffers
    /\ firstField = [called |-> FALSE, kind |-> "", value |-> <<>>]
    /\ stringFields = [called |-> FALSE, kind |-> "", out |-> NoFields]
    /\ TwoIdle /\ IdsIdle /\ CtxIdle /\ FrameIdle /\ VarintIdle /\ UiIdle
    /\ response = None /\ error = None
    /\ frames = None /\ data = None /\ nread = None /\ buffer = None /\ events = None
    /\ spc = None /\ bytewise = None /\ bpc = None /\ parsed = None /\ result = None

restOfFields == <<callVars, response, error, twoVars, idVars, ctxVars, frameVars, varintVars, uiVars>>

FirstDecoded(r) ==
    firstField' = [called |-> TRUE, kind |-> r.kind, value |-> r.value]

DecodeFirstStringField ==
    /\ ~firstField.called
    /\ FirstDecoded(decodeFirstStringField(regBuf))
    /\ UNCHANGED <<regBuf, stringFields, restOfFields>>

FieldsDecoded(r) ==
    stringFields' = [called |-> TRUE, kind |-> r.kind, out |-> r.out]

DecodeStringFields ==
    /\ ~stringFields.called
    /\ FieldsDecoded(decodeStringFields(regBuf))
    /\ UNCHANGED <<regBuf, firstField, restOfFields>>

NextFields == DecodeFirstStringField \/ DecodeStringFields

SpecFields == InitFields /\ [][NextFields]_vars

----------------------------------------------------------------------------
(* The fields of a buffer as the wire format has them: a length is the       *)
(* number its varint stands for, however large.                              *)

TooLong == 1000    \* a length no buffer here can hold

RECURSIVE WireLength(_, _, _, _)
\* the number of the varint at offset, TooLong for anything from TooLong up;
\* ok is FALSE when the buffer ends within the varint
WireLength(buf, offset, length, unit) ==
    IF offset >= Len(buf) THEN [ok |-> FALSE, length |-> 0, offset |-> offset]
    ELSE LET b == buf[offset + 1]
             more == length + (b % 128) * unit
             l == IF more > TooLong THEN TooLong ELSE more
         IN  IF b < 128 THEN [ok |-> TRUE, length |-> l, offset |-> offset + 1]
             ELSE WireLength(buf, offset + 1, l,
                             IF unit * 128 > TooLong THEN TooLong ELSE unit * 128)

\* the field that starts at offset: complete is FALSE when its wire type is not
\* 2, its length is cut short or its value runs past the end of the buffer
FieldAt(buf, offset) ==
    LET l == WireLength(buf, offset + 1, 0, 1)
    IN  [complete |-> buf[offset + 1] % 8 = 2 /\ l.ok /\ l.offset + l.length <= Len(buf),
         number |-> buf[offset + 1] \div 8,
         from |-> l.offset,
         next |-> l.offset + l.length]

----------------------------------------------------------------------------
(* C17: decodeFirstStringField returns the value of the first field 1 of     *)
(* wire type 2, and undefined on a wire type other than 2, a length cut      *)
(* short, a value running past the end, or no field 1.                       *)

RECURSIVE FirstStringField(_, _)
\* what the buffer holds from offset on, field by field
FirstStringField(buf, offset) ==
    IF offset >= Len(buf) THEN NotFound
    ELSE IF ~FieldAt(buf, offset).complete THEN NotFound
    ELSE IF FieldAt(buf, offset).number = 1
         THEN [kind |-> "string",
               value |-> ToStringUtf8(SubSeq(buf, FieldAt(buf, offset).from + 1,
                                             FieldAt(buf, offset).next))]
    ELSE FirstStringField(buf, FieldAt(buf, offset).next)

\* C17: on every buffer the call returns, and returns the value of the first
\* complete field 1 when only complete length-delimited fields come before
\* it, and undefined otherwise
C17_FirstStringField ==
    firstField.called =>
        /\ firstField.kind = FirstStringField(regBuf, 0).kind
        /\ firstField.value = FirstStringField(regBuf, 0).value

\* the buffers with no length of five bytes
ShortLengths ==
    \E b \in BytesUpTo(MaxBuf), f \in {<<>>, <<10, 1, 97>>} : regBuf = b \o f

\* on the buffers whose lengths stay below 2^31 the call does as C17 says
C17_HoldsOnShortLengths == ShortLengths => C17_FirstStringField

\* field 1 with the length 2^32 - 1 and no value: "" is returned
C17_ValuePastEndFound ==
    /\ regBuf = <<10, 255, 255, 255, 255, 15>>
    /\ firstField.called
    /\ firstField.kind = "string" /\ firstField.value = <<>>

----------------------------------------------------------------------------
(* C18: decodeStringFields returns the length-delimited fields read up to    *)
(* the first field of another wire type or cut short.                        *)

RECURSIVE StringFields(_, _, _)
\* the complete length-delimited fields from offset on, up to the first field
\* that is not one
StringFields(buf, offset, out) ==
    IF offset >= Len(buf) THEN out
    ELSE IF ~FieldAt(buf, offset).complete THEN out
    ELSE StringFields(buf, FieldAt(buf, offset).next,
             Put(out, FieldAt(buf, offset).number,
                 ToStringUtf8(SubSeq(buf, FieldAt(buf, offset).from + 1,
                                     FieldAt(buf, offset).next))))

\* C18: on every buffer the call returns, with the map of the fields before
\* the first one that has another wire type, a length cut short or a value
\* running past the end
C18_StringFields ==
    stringFields.called =>
        /\ stringFields.kind = "map"
        /\ stringFields.out = StringFields(regBuf, 0, NoFields)

\* on the buffers whose lengths stay below 2^31 the call does as C18 says
C18_HoldsOnShortLengths == ShortLengths => C18_StringFields

\* field 2 of one byte, then field 2 with the length 2^32 - 6: the scan is back at
\* the start of that field and never ends
C18_NeverReturns ==
    /\ regBuf = <<18, 1, 1, 18, 250, 255, 255, 255, 15>>
    /\ stringFields.called
    /\ stringFields.kind = "hang"

----------------------------------------------------------------------------
(* C19: is_article_done is a flag, not the end of the stream: the frames     *)
(* after it are still decoded, and every frame that carries it signals done. *)

\* the data frames that carry is_article_done
DoneFrames(fs) == {i \in 1..Len(fs) : IsData(fs[i]) /\ fs[i].done}

\* the data frames with text that come after a frame carrying is_article_done
LaterTexts(fs) ==
    {i \in 1..Len(fs) : /\ IsData(fs[i]) /\ fs[i].text # <<>>
                        /\ \E k \in DoneFrames(fs) : k < i}

\* the 'done' messages before message e
DonesBefore(es, e) == {d \in 1..(e - 1) : es[d].type = "done"}

\* C19: the stream has passed on one 'done' per data frame carrying the flag,
\* and the text of every data frame after such a frame, behind as many 'done'
\* messages as frames up to it carry the flag; the buffered call has the flag
\* set if and only if some data frame carries it, and holds the text of every
\* data frame after such a frame
C19_DoneIsNotATerminator ==
    /\ spc # "threw" =>
          /\ Len(OfType(events, "done")) = Cardinality(DoneFrames(Arrived))
          /\ \A i \in LaterTexts(Arrived) :
                \E e \in 1..Len(events) :
                   /\ events[e].type # "done"
                   /\ events[e].text = Arrived[i].text
                   /\ Cardinality(DonesBefore(events, e))
                         = Cardinality(DoneFrames(Arrived) \cap 1..i)
    /\ FetchOver =>
          /\ parsed.isArticleDoneSeen = (DoneFrames(frames) # {})
          /\ \A i \in LaterTexts(frames) :
                \/ \E p \in 1..Len(parsed.articleParts) :
                      parsed.articleParts[p] = frames[i].text
                \/ \E p \in 1..Len(parsed.followupParts) :
                      parsed.followupParts[p] = frames[i].text

\* "world" with the flag, then "Hello ", then "z" with the flag again: two
\* 'done' messages have gone out, "Hello " between them and "z" after both
C19_Witness ==
    /\ spc = "returned"
    /\ Len(frames) = 3
    /\ frames[1].text = World /\ frames[1].done
    /\ frames[2].text = Hello /\ ~frames[2].done
    /\ frames[3].text = Zed /\ frames[3].done /\ IsData(frames[3])
    /\ Len(OfType(events, "done")) = 2
    /\ events[1] = DoneMessage /\ events[3] = TextMessage("article", Hello)
    /\ events[4] = DoneMessage /\ events[5] = TextMessage("article", Zed)

----------------------------------------------------------------------------
(* C20: each data frame gives one message per item it routes, 'done' first,  *)
(* then the text_delta, then the followup_questions; frames that route       *)
(* nothing give none, and no text is merged or dropped as a duplicate.       *)

\* the followup_questions of f is routed: when it is not empty (blanks TRUE),
\* or when it holds something other than white space (blanks FALSE)
BlockRouted(f, blanks) == IF blanks THEN f.fq # <<>> ELSE NonBlank(f.fq)

\* the number of items frame f routes
Items(f, blanks) ==
    IF ~IsData(f) THEN 0
    ELSE (IF f.done THEN 1 ELSE 0) + (IF f.text # <<>> THEN 1 ELSE 0)
         + (IF BlockRouted(f, blanks) THEN 1 ELSE 0)

RECURSIVE ItemsOf(_, _)
\* the number of items the frames fs route
ItemsOf(fs, blanks) ==
    IF fs = <<>> THEN 0 ELSE Items(Head(fs), blanks) + ItemsOf(Tail(fs), blanks)

\* the messages es are those of frame f: 'done' if it carries the flag, then
\* its text_delta, then its followup_questions
MessagesOfFrame(es, f, blanks) ==
    /\ Len(es) = Items(f, blanks)
    /\ f.done => es[1].type = "done"
    /\ f.text # <<>> =>
          /\ es[IF f.done THEN 2 ELSE 1].type \in {"article", "followup"}
          /\ es[IF f.done THEN 2 ELSE 1].text = f.text
    /\ BlockRouted(f, blanks) => es[Len(es)] = TextMessage("followup", f.fq)

\* every arrived frame has its own messages, one behind the other
MessagesPerFrame(blanks) ==
    /\ Len(events) = ItemsOf(Arrived, blanks)
    /\ \A i \in 1..Len(Arrived) :
          MessagesOfFrame(SubSeq(events, ItemsOf(SubSeq(Arrived, 1, i - 1), blanks) + 1,
                                 ItemsOf(SubSeq(Arrived, 1, i), blanks)),
                          Arrived[i], blanks)

\* C20 as claimed: a 'followup' message for every followup_questions that is
\* not empty
C20_MessagePerNonEmptyItem == spc # "threw" => MessagesPerFrame(TRUE)

\* C20 as amended: a 'followup' message for every followup_questions that
\* holds something other than white space; a block of white space gives none
C20_MessagePerRoutedItem == spc # "threw" => MessagesPerFrame(FALSE)

\* the same frame sent twice around a delta with nothing in it: 'done', "z"
\* and the block " Q2 \r\nQ1" have gone out twice, and nothing in between
C20_Witness ==
    /\ spc = "returned"
    /\ Len(frames) = 3
    /\ frames[1] = frames[3] /\ IsData(frames[1])
    /\ frames[1].done /\ frames[1].text = Zed /\ frames[1].fq = Q2Q1
    /\ frames[2] = EmptyDelta
    /\ events = <<DoneMessage, TextMessage("article", Zed), TextMessage("followup", Q2Q1),
                  DoneMessage, TextMessage("article", Zed), TextMessage("followup", Q2Q1)>>

----------------------------------------------------------------------------
(* A response that ends in the middle of a frame: the body is the frames     *)
(* followed by bytes that are no complete frame.                             *)

HelloFrame == Delta(0, FALSE, Hello, <<>>, FALSE, <<>>)

TailCatalogue ==
    { HelloFrame,
      EmptyFrame,
      Delta(0, FALSE, World, <<>>, TRUE, <<>>),
      Delta(1, TRUE, Q1, ConvFollowup, FALSE, <<>>),
      Raw(0, FALSE, "junk", Truncated) }

TailBodies == UNION {[1..n -> TailCatalogue] : n \in 0..MaxTailFrames}

\* a header announcing 20 bytes with the 10 bytes of a "Hello " delta behind it
ShortFrame == <<0, 0, 0, 0, 20>> \o Body(HelloFrame)
\* headers announcing 2^31 and 2^32 - 1 bytes with a whole frame behind them
Frame2G == <<0, 128, 0, 0, 0>> \o FrameBytes(HelloFrame)
Frame4G == <<1, 255, 255, 255, 255>> \o FrameBytes(HelloFrame)

\* what is left over: nothing, one byte, four bytes, or a cut frame
Tails == {<<>>, <<0>>, <<0, 0, 0, 10>>, ShortFrame, Frame2G, Frame4G}

InitTail ==
    /\ TwoIdle /\ IdsIdle /\ CtxIdle /\ FrameIdle /\ VarintIdle /\ FieldsIdle /\ UiIdle
    /\ response = OkResponse
    /\ error = NoError
    /\ frames \in TailBodies
    /\ data \in {BodyBytes(frames) \o t : t \in Tails}
    /\ nread = 0
    /\ buffer = <<>>
    /\ events = <<>>
    /\ spc \in {"reading", "idle"}
    /\ bytewise = TRUE
    /\ bpc = IF spc = "idle" THEN "awaiting" ELSE "idle"
    /\ parsed = NotParsed
    /\ result = <<>>

\* lines 516-523: reader.read() hands out all the bytes not yet read at once
ReadRest ==
    /\ spc = "reading"
    /\ nread < Len(data)
    /\ Processed(processBuffer(buffer \o SubSeq(data, nread + 1, Len(data))), "reading")
    /\ nread' = Len(data)
    /\ bytewise' = FALSE
    /\ UNCHANGED <<frames, data, bpc, parsed, result, response, error, others>>

NextTail ==
    \/ \E n \in 1..MaxChunk : ReadChunk(n)
    \/ ReadRest
    \/ ReadDone
    \/ ReadWhole
    \/ FetchBody

SpecTail == InitTail /\ [][NextTail]_vars

\* the bytes behind the last frame of the body
Leftover == SubSeq(data, BodyLen(frames) + 1, Len(data))

----------------------------------------------------------------------------
(* C21: bytes left over at the end of the stream that form no complete frame *)
(* are dropped without an error, a text or an event, in both modes; the      *)
(* complete frames before them are delivered.                                *)

\* C21: the stream never throws and returns with the messages of the frames
\* and nothing else, the left-over bytes still in its buffer; the buffered
\* call ends as it does on the body without the left-over bytes, with the
\* same parts, the same text and the same outcome
C21_LeftoverBytesDiscarded ==
    /\ spc # "threw"
    /\ spc = "returned" => events = ExpectedAll(frames) /\ buffer = Leftover
    /\ FetchOver =>
          /\ parsed = parseDeepwikiResponses(BodyBytes(frames))
          /\ result = parsed.text
          /\ bpc = (IF parsed.article = <<>> /\ parsed.unique = <<>>
                    THEN "threw" ELSE "returned")

\* "Hello " was sent whole and then a frame of 20 bytes of which 10 came: the
\* stream has returned with the one message, the 15 bytes still buffered
C21_Witness ==
    /\ spc = "returned"
    /\ frames = <<HelloFrame>>
    /\ Leftover = ShortFrame
    /\ events = <<TextMessage("article", Hello)>>
    /\ Len(buffer) = 15

----------------------------------------------------------------------------
(* C22: the messages of a stream do not depend on how the body is cut into   *)
(* chunks.                                                                   *)

\* C22: however the body came in, a stream that has returned has passed on
\* the messages that one run of the frame loop over the whole body gives
C22_ChunkingIndependent ==
    spc = "returned" => events = processBuffer(data).out

\* two frames and a cut third one have come in one byte at a time: "Hello ",
\* 'done' and "world" have gone out
C22_Witness ==
    /\ spc = "returned" /\ bytewise
    /\ Len(frames) = 2 /\ frames[1] = HelloFrame /\ frames[2].done
    /\ Leftover = ShortFrame
    /\ events = <<TextMessage("article", Hello), DoneMessage,
                  TextMessage("article", World)>>

----------------------------------------------------------------------------
(* C23: the buffered parser and the stream read the same texts out of the    *)
(* same bytes, whatever lengths the headers declare.                         *)

\* the texts of the messages of one kind, joined
Joined(es, kind) == Flatten(TextsOf(OfType(es, kind)))

\* C23: the 'article' texts of a returned stream, joined, are the article of
\* the buffered parser over the same body, and its 'followup' texts the
\* follow-up accumulator; the article and the accumulator of a buffered call
\* are the joined texts of one run of the stream's frame loop over its body
C23_BufferedAndStreamingAgree ==
    /\ spc = "returned" =>
          /\ Joined(events, "article") = parseDeepwikiResponses(data).article
          /\ Joined(events, "followup")
                = Flatten(parseDeepwikiResponses(data).followupParts)
    /\ FetchOver =>
          /\ parsed.article = Joined(processBuffer(data).out, "article")
          /\ Flatten(parsed.followupParts) = Joined(processBuffer(data).out, "followup")

\* "world" with the flag and "Q1\n" on a follow-up conversation, then a header
\* announcing 2^31 bytes with a whole frame behind it: the stream has returned
\* with "world" as article text and "Q1\n" as follow-up text
C23_Witness ==
    /\ spc = "returned"
    /\ Len(frames) = 2 /\ frames[1].text = World /\ frames[2].text = Q1
    /\ Leftover = Frame2G
    /\ Joined(events, "article") = World
    /\ Joined(events, "followup") = Q1

----------------------------------------------------------------------------
(* Responses whose text makes the payload begin, after white space, with a   *)
(* bracket: field 1 has the tag 0x0a, a line feed.                           *)

\* "[link](u)": 9 bytes, so the payload is 0a 0b 0a 09 5b ..., and 0x0b and
\* 0x09 are white space too
Link == <<91, 108, 105, 110, 107, 93, 40, 117, 41>>
LinkFrame == Delta(0, FALSE, Link, <<>>, FALSE, <<>>)

\* 89 letters: the Response takes 91 bytes, so the payload is 0a 5b 0a 59 ...
Letters == [i \in 1..89 |-> 97]
LettersFrame == Delta(0, FALSE, Letters, <<>>, TRUE, <<>>)

JsonCatalogue == {HelloFrame, LinkFrame, Raw(2, FALSE, "json", JsonError)}

\* the long response comes alone
JsonBodies ==
    UNION {[1..n -> JsonCatalogue] : n \in 0..MaxJsonFrames} \cup {<<LettersFrame>>}

InitJson ==
    /\ TwoIdle /\ IdsIdle /\ CtxIdle /\ FrameIdle /\ VarintIdle /\ FieldsIdle /\ UiIdle
    /\ response = OkResponse
    /\ error = NoError
    /\ frames \in JsonBodies
    /\ data = BodyBytes(frames)
    /\ nread = 0
    /\ buffer = <<>>
    /\ events = <<>>
    /\ spc \in {"reading", "idle"}
    /\ bytewise = TRUE
    /\ bpc = IF spc = "idle" THEN "awaiting" ELSE "idle"
    /\ parsed = NotParsed
    /\ result = <<>>

SpecJson == InitJson /\ [][NextTail]_vars

----------------------------------------------------------------------------
(* C24: a payload that is a well-formed response with a text_delta is never  *)
(* taken for a JSON text, and its text is delivered.                         *)

\* the data frames that carry a text_delta
TextFrames == {i \in 1..Len(frames) : IsData(frames[i]) /\ frames[i].text # <<>>}

\* C24: a returned stream has passed on the text of every data frame that
\* carries one, and a buffered call holds it among its parts
C24_ResponseNeverTakenForJson ==
    /\ spc = "returned" =>
          \A i \in TextFrames :
             \E e \in 1..Len(events) :
                events[e].type # "done" /\ events[e].text = frames[i].text
    /\ FetchOver =>
          \A i \in TextFrames :
             \/ \E p \in 1..Len(parsed.articleParts) :
                   parsed.articleParts[p] = frames[i].text
             \/ \E p \in 1..Len(parsed.followupParts) :
                   parsed.followupParts[p] = frames[i].text

\* the response with the text "[link](u)" has come in whole and the stream
\* has returned without a message
C24_TextTakenForJson ==
    /\ spc = "returned"
    /\ frames = <<LinkFrame>>
    /\ Payload(LinkFrame) = <<10, 11, 10, 9>> \o Link
    /\ internalBinaryRead(Payload(LinkFrame)).ok
    /\ internalBinaryRead(Payload(LinkFrame)).msg.response.textDelta = Link
    /\ events = <<>>

\* the same for the response with 89 letters and is_article_done: neither
\* 'done' nor the text has gone out
C24_LettersTakenForJson ==
    /\ spc = "returned"
    /\ frames = <<LettersFrame>>
    /\ SubSeq(Payload(LettersFrame), 1, 4) = <<10, 91, 10, 89>>
    /\ events = <<>>

----------------------------------------------------------------------------
(* C25: the stream's buffer is always the bytes received behind the last     *)
(* whole frame, too few to be a frame, and every frame taken off it takes at *)
(* least its 5 header bytes.                                                 *)

\* the length the header of the buffered bytes declares, read without a sign
Declared == ReadUInt32BE(buffer, 1).val

\* C25: the stream never throws; the bytes received are those of the frames
\* taken off, which are the whole frames received and at least 5 bytes each,
\* followed by the buffer, which is shorter than 5 bytes or than the frame its
\* header declares
C25_BytesConserved ==
    /\ spc # "threw"
    /\ spc \in {"reading", "returned"} =>
          /\ events = ExpectedAll(Arrived)
          /\ SubSeq(data, 1, nread) = BodyBytes(Arrived) \o buffer
          /\ Len(BodyBytes(Arrived)) >= 5 * Len(Arrived)
          /\ Len(buffer) < 5 \/ Len(buffer) - 5 < Declared

\* a frame with no payload and "Hello " have been taken off the buffer, which
\* now holds a header declaring 2^32 - 1 bytes and the 15 bytes behind it
C25_Witness ==
    /\ spc = "reading" /\ nread = Len(data)
    /\ frames = <<EmptyFrame, HelloFrame>>
    /\ Leftover = Frame4G
    /\ events = <<TextMessage("article", Hello)>>
    /\ buffer = Frame4G /\ Len(buffer) = 20

----------------------------------------------------------------------------
(* The panel: ContextWebviewViewProvider.updateForEditor (contextView.ts)   *)
(* and the webview that applies the messages it posts (App.vue).  Text is   *)
(* a sequence of one-character strings.  The view is resolved (this.view is *)
(* set) before the first invocation.  webview.postMessage delivers to one   *)
(* listener in the order of the posts, so `webview` is the state after the  *)
(* messages posted so far.  The fixed notices are told apart by their title *)
(* and their content is written Notice(title).                              *)

Invocation == 1..MaxInvocations

Notice(title) == <<title>>

\* a slip: the entries after the current index are kept
pushHistoryKeepingAll(p, entry) ==
    [p EXCEPT !.history = Append(@, entry), !.historyIndex = Len(p.history)]

\* contextView.ts lines 240-248: pushHistory(entry)
pushHistory(p, entry) ==
    LET kept == IF p.historyIndex < Len(p.history) - 1
                THEN SubSeq(p.history, 1, p.historyIndex + 1)
                ELSE p.history
        pushed == Append(kept, entry)
    IN  [p EXCEPT !.history = pushed, !.historyIndex = Len(pushed) - 1]

\* lines 250-255: getNavigationState()
getNavigationState(p) ==
    [canGoPrev |-> p.historyIndex > 0,
     canGoNext |-> p.historyIndex < Len(p.history) - 1]

\* App.vue lines 19-32: `state` before any message (theme fields left out)
InitialState ==
    [title |-> "Context Code Text", isLoading |-> FALSE,
     content |-> Notice("Context Code Text"), followups |-> <<>>,
     canGoPrev |-> FALSE, canGoNext |-> FALSE]

\* App.vue lines 44-66: handleMessage(event)
handleMessage(state, msg) ==
    IF msg.type = "initState" THEN msg.state
    ELSE IF msg.type = "updateContent"
    THEN [state EXCEPT !.content = msg.markdown, !.followups = msg.followups,
                       !.isLoading = FALSE]
    ELSE IF msg.type = "loadingDone" THEN [state EXCEPT !.isLoading = FALSE]
    ELSE state

\* the provider, the webview and the record of effects, as one value that the
\* statements of a handler change in turn; l holds the locals of the invocation
Panel == [provider |-> provider, webview |-> webview, effects |-> effects]

Apply(w) ==
    /\ provider' = w.provider
    /\ webview' = w.webview
    /\ effects' = w.effects

\* an effect on the panel: what was done, the generation of the invocation
\* that did it (0 when it had taken none) and updateGeneration at that time
Effect(w, name, g) ==
    [effect |-> name, gen |-> g, updateGeneration |-> w.provider.updateGeneration]

\* this.view?.webview.postMessage(msg)
postMessage(w, msg, g) ==
    [w EXCEPT !.webview = handleMessage(@, msg),
              !.effects = @ \cup {Effect(w, msg.type, g)}]

\* lines 268-279: sendInitState(state), the theme fields left out
sendInitState(w, state, g) == postMessage(w, [type |-> "initState", state |-> state], g)

\* lines 304-306: sendUpdateContent(markdown, followups)
sendUpdateContent(w, markdown, followups, g) ==
    postMessage(w, [type |-> "updateContent", markdown |-> markdown,
                    followups |-> followups], g)

\* lines 308-310: sendLoadingDone()
sendLoadingDone(w, g) == postMessage(w, [type |-> "loadingDone"], g)

\* this.currentArticle = text
setCurrentArticle(w, text, g) ==
    [w EXCEPT !.provider.currentArticle = text,
              !.effects = @ \cup {Effect(w, "currentArticle", g)}]

\* the states updateForEditor sends with isLoading false and a fixed text
NoticeState(title) ==
    [title |-> title, isLoading |-> FALSE, content |-> Notice(title),
     followups |-> <<>>, canGoPrev |-> FALSE, canGoNext |-> FALSE]

\* lines 364-373: the state sent when the request starts
RequestingState ==
    [title |-> "name", isLoading |-> TRUE, content |-> Notice("requesting"),
     followups |-> <<>>, canGoPrev |-> FALSE, canGoNext |-> FALSE]

\* lines 445-453: the state sent before the stream starts
StreamingState(p) ==
    [title |-> "name", isLoading |-> TRUE, content |-> Notice("streaming"),
     followups |-> <<>>, canGoPrev |-> getNavigationState(p).canGoPrev,
     canGoNext |-> getNavigationState(p).canGoNext]

WhiteSpace == {" ", "\t", "\r", "\n"}

RECURSIVE splitLines(_, _, _)
\* String.prototype.split(/\r?\n/), the carriage return left to trim: the
\* items of s from index i on, cur being the item begun
splitLines(s, i, cur) ==
    IF i > Len(s) THEN <<cur>>
    ELSE IF s[i] = "\n" THEN <<cur>> \o splitLines(s, i + 1, <<>>)
    ELSE splitLines(s, i + 1, Append(cur, s[i]))

\* String.prototype.trim()
trim(s) ==
    LET inked == {i \in 1..Len(s) : s[i] \notin WhiteSpace}
    IN  IF inked = {} THEN <<>>
        ELSE SubSeq(s, CHOOSE i \in inked : \A j \in inked : i <= j,
                       CHOOSE i \in inked : \A j \in inked : i >= j)

\* lines 425-435 and 484-488: the follow-up lines, trimmed, the empty ones
\* dropped, each kept where it came first
uniqueFollowups(followupBuffer) ==
    LET items == splitLines(followupBuffer, 1, <<>>)
        trimmed == [k \in 1..Len(items) |-> trim(items[k])]
        F[k \in 0..Len(trimmed)] ==
            IF k = 0 THEN <<>>
            ELSE IF trimmed[k] = <<>> \/ \E j \in 1..(k - 1) : trimmed[j] = trimmed[k]
                 THEN F[k - 1]
                 ELSE Append(F[k - 1], trimmed[k])
    IN  F[Len(trimmed)]

\* lines 410-421: renderState(), up to the setTimeout
renderState(w, l) ==
    IF l.gen # w.provider.updateGeneration THEN l
    ELSE IF l.pendingRender THEN l
    ELSE [l EXCEPT !.pendingRender = TRUE]

\* lines 508-536: the catch block
Catch(w, l) ==
    IF l.gen # w.provider.updateGeneration THEN w
    ELSE sendInitState(w, NoticeState("Error"), l.gen)

Returned(l) == [l EXCEPT !.pc = "returned"]

\* the messages a stream passes to the callback
StreamMessages ==
    {[type |-> "article", text |-> <<"a">>], [type |-> "article", text |-> <<>>],
     [type |-> "followup", text |-> <<"Q", "\n">>], [type |-> "done", text |-> <<>>]}

NotStarted ==
    [pc |-> "idle", gen |-> 0, articleText |-> <<>>, followupBuffer |-> <<>>,
     pendingRender |-> FALSE, received |-> 0]

\* lines 44-47 and 85-95: the panel after resolveWebviewView, no invocation yet
InitPanel ==
    /\ provider = [updateGeneration |-> 0, currentArticle |-> <<>>,
                   history |-> <<>>, historyIndex |-> -1]
    /\ invocations = [i \in Invocation |-> NotStarted]
    /\ webview = InitialState
    /\ effects = {}
    /\ lastCall = None
    /\ CallIdle /\ TwoIdle /\ IdsIdle /\ CtxIdle /\ FrameIdle /\ VarintIdle
    /\ FieldsIdle /\ KeyIdle /\ KindIdle

restOfPanel ==
    <<callVars, response, error, twoVars, idVars, ctxVars, frameVars, varintVars,
      fieldVars, keyVars, kindVars, lastCall>>

\* lines 312-334: updateForEditor(editor) up to its first await
Start(i, editor) ==
    /\ invocations[i].pc = "idle"
    /\ IF editor
       THEN /\ invocations' = [invocations EXCEPT ![i].pc = "focus"]
            /\ UNCHANGED <<provider, webview, effects>>
       ELSE /\ Apply(sendInitState(Panel, NoticeState("No active editor"), 0))
            /\ invocations' = [invocations EXCEPT ![i] = Returned(@)]
    /\ UNCHANGED restOfPanel

\* lines 332-373: the focus commands are over (or have failed); the word at
\* the cursor is looked up, and a generation taken when there is one
AfterFocus(i, wordRange) ==
    /\ invocations[i].pc = "focus"
    /\ IF wordRange
       THEN LET gen == provider.updateGeneration + 1
                taken == [Panel EXCEPT !.provider.updateGeneration = gen]
            IN  /\ Apply(sendInitState(taken, RequestingState, gen))
                /\ invocations' = [invocations EXCEPT ![i].gen = gen,
                                                      ![i].pc = "getRichNode"]
       ELSE /\ Apply(sendInitState(Panel, NoticeState("No symbol at cursor"), 0))
            /\ invocations' = [invocations EXCEPT ![i] = Returned(@)]
    /\ UNCHANGED restOfPanel

\* lines 376-391: getRichNode has settled
AfterGetRichNode(i, outcome) ==
    LET l == invocations[i]
    IN  /\ l.pc = "getRichNode"
        /\ IF outcome = "throws"
           THEN Apply(Catch(Panel, l)) /\ invocations' = [invocations EXCEPT ![i] = Returned(l)]
           ELSE IF l.gen # provider.updateGeneration
           THEN /\ invocations' = [invocations EXCEPT ![i] = Returned(l)]
                /\ UNCHANGED <<provider, webview, effects>>
           ELSE IF outcome = "null"
           THEN /\ Apply(sendInitState(Panel, NoticeState("No rich node"), l.gen))
                /\ invocations' = [invocations EXCEPT ![i] = Returned(l)]
           ELSE /\ invocations' = [invocations EXCEPT ![i].pc = "contexts"]
                /\ UNCHANGED <<provider, webview, effects>>
        /\ UNCHANGED restOfPanel

\* lines 393-401: the Promise.all of the six context texts has settled
AfterContexts(i, outcome) ==
    LET l == invocations[i]
    IN  /\ l.pc = "contexts"
        /\ IF outcome = "throws"
           THEN Apply(Catch(Panel, l)) /\ invocations' = [invocations EXCEPT ![i] = Returned(l)]
           ELSE IF l.gen # provider.updateGeneration
           THEN /\ invocations' = [invocations EXCEPT ![i] = Returned(l)]
                /\ UNCHANGED <<provider, webview, effects>>
           ELSE /\ invocations' = [invocations EXCEPT ![i].pc = "getSymbolKind"]
                /\ UNCHANGED <<provider, webview, effects>>
        /\ UNCHANGED restOfPanel

\* lines 403-453: rich.getSymbolKind() has settled; the locals of the stream
\* are set up, currentArticle is emptied and the streaming state is sent
AfterGetSymbolKind(i, outcome) ==
    LET l == invocations[i]
    IN  /\ l.pc = "getSymbolKind"
        /\ IF outcome = "throws"
           THEN Apply(Catch(Panel, l)) /\ invocations' = [invocations EXCEPT ![i] = Returned(l)]
           ELSE LET emptied == setCurrentArticle(Panel, <<>>, l.gen)
                IN  /\ Apply(sendInitState(emptied, StreamingState(provider), l.gen))
                    /\ invocations' = [invocations EXCEPT ![i].pc = "stream"]
        /\ UNCHANGED restOfPanel

\* lines 464-478: the callback given to streamDeepwikiArticle
onStreamMessage(w, l, m) ==
    IF l.gen # w.provider.updateGeneration THEN [w |-> w, l |-> l]
    ELSE IF m.type = "article" /\ m.text # <<>>
    THEN LET added == [l EXCEPT !.articleText = @ \o m.text]
         IN  [w |-> w, l |-> renderState(w, added)]
    ELSE IF m.type = "followup" /\ m.text # <<>>
    THEN LET added == [l EXCEPT !.followupBuffer = @ \o m.text]
         IN  [w |-> w, l |-> renderState(w, added)]
    ELSE IF m.type = "done"
    THEN [w |-> sendLoadingDone(w, l.gen), l |-> renderState(w, l)]
    ELSE [w |-> w, l |-> l]

\* the stream of invocation i passes one message to the callback
StreamMessage(i, m) ==
    LET l == invocations[i]
        after == onStreamMessage(Panel, l, m)
    IN  /\ l.pc = "stream"
        /\ l.received < MaxStream
        /\ Apply(after.w)
        /\ invocations' = [invocations EXCEPT ![i] = [after.l EXCEPT !.received = @ + 1]]
        /\ UNCHANGED restOfPanel

\* lines 479-506: streamDeepwikiArticle has returned
afterStream(w, l) ==
    IF l.gen # w.provider.updateGeneration THEN [w |-> w, l |-> l]
    ELSE LET rendered == renderState(w, l)
             done == sendLoadingDone(w, l.gen)
             entry == [title |-> "name", markdown |-> l.articleText,
                       followups |-> uniqueFollowups(l.followupBuffer)]
         IN  IF l.articleText # <<>>
             THEN [w |-> [done EXCEPT !.provider = pushHistory(@, entry),
                                      !.effects = @ \cup {Effect(w, "pushHistory", l.gen)}],
                   l |-> rendered]
             ELSE [w |-> done, l |-> rendered]

StreamReturns(i) ==
    LET l == invocations[i]
        after == afterStream(Panel, l)
    IN  /\ l.pc = "stream"
        /\ Apply(after.w)
        /\ invocations' = [invocations EXCEPT ![i] = Returned(after.l)]
        /\ UNCHANGED restOfPanel

\* streamDeepwikiArticle has thrown: the catch block
StreamThrows(i) ==
    LET l == invocations[i]
    IN  /\ l.pc = "stream"
        /\ Apply(Catch(Panel, l))
        /\ invocations' = [invocations EXCEPT ![i] = Returned(l)]
        /\ UNCHANGED restOfPanel

\* lines 421-441: the callback given to setTimeout runs, 50 ms after
\* renderState set pendingRender
RenderTimer(i) ==
    LET l == invocations[i]
    IN  /\ l.pendingRender
        /\ invocations' = [invocations EXCEPT ![i].pendingRender = FALSE]
        /\ IF l.gen # provider.updateGeneration
           THEN UNCHANGED <<provider, webview, effects>>
           ELSE Apply(sendUpdateContent(setCurrentArticle(Panel, l.articleText, l.gen),
                                        l.articleText, uniqueFollowups(l.followupBuffer),
                                        l.gen))
        /\ UNCHANGED restOfPanel

NextPanel ==
    \/ \E i \in Invocation, editor \in BOOLEAN : Start(i, editor)
    \/ \E i \in Invocation, wordRange \in BOOLEAN : AfterFocus(i, wordRange)
    \/ \E i \in Invocation, outcome \in {"node", "null", "throws"} : AfterGetRichNode(i, outcome)
    \/ \E i \in Invocation, outcome \in {"ok", "throws"} : AfterContexts(i, outcome)
    \/ \E i \in Invocation, outcome \in {"ok", "throws"} : AfterGetSymbolKind(i, outcome)
    \/ \E i \in Invocation, m \in StreamMessages : StreamMessage(i, m)
    \/ \E i \in Invocation : StreamReturns(i)
    \/ \E i \in Invocation : StreamThrows(i)
    \/ \E i \in Invocation : RenderTimer(i)

SpecPanel == InitPanel /\ [][NextPanel]_vars

\* the effects of an invocation that had taken a generation and was no longer
\* the latest when it acted
Stale == {e \in effects : e.gen # 0 /\ e.gen # e.updateGeneration}

(* C26: once a newer invocation of updateForEditor has taken a generation,  *)
(* an older one posts no message to the webview, does not change            *)
(* currentArticle and pushes no history entry.                              *)
C26_SupersededInvocationIsSilent == Stale = {}

\* a superseded invocation has emptied currentArticle and posted initState
C26_SupersededInvocationActs ==
    /\ \E e \in Stale : e.effect = "initState"
    /\ \E e \in Stale : e.effect = "currentArticle"

\* every invocation has returned and no render timer is pending
Settled ==
    \A i \in Invocation : invocations[i].pc = "returned" /\ ~invocations[i].pendingRender

(* C27: once every invocation of updateForEditor has returned and every     *)
(* pending render timer has fired, the state last applied by the webview    *)
(* has isLoading = false.                                                   *)
C27_NeverLeftLoading == Settled => ~webview.isLoading

\* all is over, a generation was taken, and the panel still shows loading
C27_LeftLoading == Settled /\ provider.updateGeneration > 0 /\ webview.isLoading

----------------------------------------------------------------------------
(* The history of the panel: pushHistory and handleNavigate, called in any  *)
(* order.  canGoBack and canGoForward, and the context keys that            *)
(* updateNavigationContext sets from them, are functions of historyIndex    *)
(* and history and are not kept as state.                                   *)

\* lines 208-214: canGoBack() and canGoForward()
canGoBack(p) == p.historyIndex > 0
canGoForward(p) == p.historyIndex < Len(p.history) - 1

\* lines 221-238: showHistoryEntry()
showHistoryEntry(w) ==
    LET p == w.provider
    IN  IF p.historyIndex < 0 \/ p.historyIndex >= Len(p.history) THEN w
        ELSE LET entry == p.history[p.historyIndex + 1]
             IN  sendInitState(setCurrentArticle(w, entry.markdown, 0),
                               [title |-> entry.title, isLoading |-> FALSE,
                                content |-> entry.markdown,
                                followups |-> entry.followups,
                                canGoPrev |-> p.historyIndex > 0,
                                canGoNext |-> p.historyIndex < Len(p.history) - 1], 0)

\* lines 186-197: handleNavigate(direction)
handleNavigate(w, direction) ==
    IF direction = "prev" /\ w.provider.historyIndex > 0
    THEN showHistoryEntry([w EXCEPT !.provider.historyIndex = @ - 1])
    ELSE IF direction = "next" /\ w.provider.historyIndex < Len(w.provider.history) - 1
    THEN showHistoryEntry([w EXCEPT !.provider.historyIndex = @ + 1])
    ELSE w

\* the entries pushed: line 491, articles "a" and "b"
Entries ==
    {[title |-> "name", markdown |-> md, followups |-> <<>>] : md \in {<<"a">>, <<"b">>}}

InitHistory ==
    /\ provider = [updateGeneration |-> 0, currentArticle |-> <<>>,
                   history |-> <<>>, historyIndex |-> -1]
    /\ webview = InitialState
    /\ effects = {}
    /\ lastCall = [call |-> "none", pushed |-> <<>>, before |-> provider]
    /\ invocations = None
    /\ CallIdle /\ TwoIdle /\ IdsIdle /\ CtxIdle /\ FrameIdle /\ VarintIdle
    /\ FieldsIdle /\ KeyIdle /\ KindIdle

restOfHistory ==
    <<callVars, response, error, twoVars, idVars, ctxVars, frameVars, varintVars,
      fieldVars, keyVars, kindVars, invocations>>

\* lines 489-505: an update has ended with an article and pushes its entry
PushHistory(entry) ==
    /\ (IF canGoForward(provider) THEN provider.historyIndex + 1
        ELSE Len(provider.history)) < MaxHistory
    /\ provider' = pushHistory(provider, entry)
    /\ lastCall' = [call |-> "pushHistory", pushed |-> <<entry>>, before |-> provider]
    /\ UNCHANGED <<webview, effects, restOfHistory>>

\* lines 104-106, 200-206: a 'navigate' message of the webview, goBack() or
\* goForward()
Navigate(direction) ==
    /\ Apply(handleNavigate(Panel, direction))
    /\ lastCall' = [call |-> direction, pushed |-> <<>>, before |-> provider]
    /\ UNCHANGED restOfHistory

NextHistory ==
    \/ \E entry \in Entries : PushHistory(entry)
    \/ \E direction \in {"prev", "next"} : Navigate(direction)

SpecHistory == InitHistory /\ [][NextHistory]_vars

(* C29: historyIndex is -1 exactly when the history is empty and otherwise  *)
(* lies in 0..history.length-1; navigate('prev') at the first entry and     *)
(* navigate('next') at the last leave the index unchanged; pushHistory      *)
(* keeps the entries up to the current index, drops the later ones, adds    *)
(* the new entry last and leaves the index on it.                           *)
C29_HistoryNavigation ==
    LET before == lastCall.before
        last == Len(provider.history) - 1
    IN  /\ provider.historyIndex = -1 <=> provider.history = <<>>
        /\ provider.history # <<>> => provider.historyIndex \in 0..last
        /\ lastCall.call = "prev" /\ before.historyIndex <= 0
              => provider.historyIndex = before.historyIndex
        /\ lastCall.call = "next" /\ before.historyIndex >= Len(before.history) - 1
              => provider.historyIndex = before.historyIndex
        /\ lastCall.call \in {"prev", "next"} => provider.history = before.history
        /\ lastCall.call = "pushHistory"
              => /\ provider.history
                      = SubSeq(before.history, 1, before.historyIndex + 1) \o lastCall.pushed
                 /\ provider.historyIndex = last
                 /\ ~(provider.historyIndex < last)

\* a push made while an earlier entry was shown has dropped the later ones
C29_Witness ==
    /\ lastCall.call = "pushHistory"
    /\ lastCall.before.historyIndex < Len(lastCall.before.history) - 1
    /\ Len(provider.history) <= Len(lastCall.before.history)

\* navigation was asked for at an end of the history
C29_NavigatedAtEnd ==
    /\ lastCall.call = "next"
    /\ provider.history # <<>>
    /\ lastCall.before.historyIndex = Len(provider.history) - 1

----------------------------------------------------------------------------
(* The context key contextCodeText.hasOutlineContext: the `update` closure  *)
(* of registerContextKeyUpdater (part_008), called on every selection       *)
(* change and every change of the active editor, the calls overlapping at   *)
(* their awaits.  The setContext commands take effect in the order in which *)
(* they are issued; contextKey is <<>> until the first one.                 *)

Update == 1..MaxUpdates

\* a slip: the key is set whether or not a later update has started
setContextAlways(key, token, latest, hasOutline) ==
    [contextKey |-> <<hasOutline>>,
     setContextCalls |-> Append(key.setContextCalls,
                                [token |-> token, contextUpdateToken |-> latest,
                                 hasOutline |-> hasOutline])]

\* part_008 lines 196-198: the key is set by the update started last
setContextIfLatest(key, token, latest, hasOutline) ==
    IF token = latest
    THEN [contextKey |-> <<hasOutline>>,
          setContextCalls |-> Append(key.setContextCalls,
                                     [token |-> token, contextUpdateToken |-> latest,
                                      hasOutline |-> hasOutline])]
    ELSE key

\* part_008 line 142, and no update begun
InitKey ==
    /\ contextUpdateToken = 0
    /\ updates = [u \in Update |-> [pc |-> "idle", token |-> 0, hasOutline |-> FALSE]]
    /\ contextKey = <<>>
    /\ setContextCalls = <<>>
    /\ CallIdle /\ TwoIdle /\ IdsIdle /\ CtxIdle /\ FrameIdle /\ VarintIdle
    /\ FieldsIdle /\ PanelIdle /\ KindIdle

restOfKey ==
    <<callVars, response, error, twoVars, idVars, ctxVars, frameVars, varintVars,
      fieldVars, panelVars, kindVars>>

\* lines 193-198: the try block is left with hasOutline = h; the token is
\* compared and the key set
Finish(u, h) ==
    LET key == setContextIfLatest([contextKey |-> contextKey,
                                   setContextCalls |-> setContextCalls],
                                  updates[u].token, contextUpdateToken, h)
    IN  /\ contextKey' = key.contextKey
        /\ setContextCalls' = key.setContextCalls
        /\ updates' = [updates EXCEPT ![u].pc = "returned", ![u].hasOutline = h]
        /\ UNCHANGED contextUpdateToken

\* lines 181-188: update(editor) up to its first await; without an editor
\* it runs to the setContext
StartUpdate(u, editor) ==
    /\ updates[u].pc = "idle"
    /\ contextUpdateToken' = contextUpdateToken + 1
    /\ IF editor
       THEN /\ updates' = [updates EXCEPT ![u].pc = "getRichNode",
                                          ![u].token = contextUpdateToken + 1]
            /\ UNCHANGED <<contextKey, setContextCalls>>
       ELSE LET key == setContextIfLatest([contextKey |-> contextKey,
                                           setContextCalls |-> setContextCalls],
                                          contextUpdateToken + 1,
                                          contextUpdateToken + 1, FALSE)
            IN  /\ contextKey' = key.contextKey
                /\ setContextCalls' = key.setContextCalls
                /\ updates' = [updates EXCEPT ![u].pc = "returned",
                                              ![u].token = contextUpdateToken + 1]
    /\ UNCHANGED restOfKey

\* lines 188-195: getRichNode has settled: with a node that has its outline
\* element, a node that has none yet, no node, or an error
UpdateAfterGetRichNode(u, outcome) ==
    /\ updates[u].pc = "getRichNode"
    /\ IF outcome = "node"
       THEN /\ updates' = [updates EXCEPT ![u].pc = "ensureOutlineElement"]
            /\ UNCHANGED <<contextUpdateToken, contextKey, setContextCalls>>
       ELSE Finish(u, outcome = "outlined")
    /\ UNCHANGED restOfKey

\* lines 190, 193-195: ensureOutlineElement has settled: with an element,
\* with undefined, or with an error
UpdateAfterEnsureOutlineElement(u, outcome) ==
    /\ updates[u].pc = "ensureOutlineElement"
    /\ Finish(u, outcome = "element")
    /\ UNCHANGED restOfKey

NextKey ==
    \/ \E u \in Update, editor \in BOOLEAN : StartUpdate(u, editor)
    \/ \E u \in Update, outcome \in {"outlined", "node", "null", "throws"} :
           UpdateAfterGetRichNode(u, outcome)
    \/ \E u \in Update, outcome \in {"element", "undefined", "throws"} :
           UpdateAfterEnsureOutlineElement(u, outcome)

SpecKey == InitKey /\ [][NextKey]_vars

\* the updates begun so far, and whether all of them have returned
Begun == {u \in Update : updates[u].pc # "idle"}
AllReturned == \A u \in Begun : updates[u].pc = "returned"

(* C28: only the update started last sets the context key: no update sets   *)
(* it once a later one has started, and when all updates have finished the  *)
(* key holds the value computed by the one started last.                    *)
C28_LatestUpdateSetsKey ==
    /\ \A k \in 1..Len(setContextCalls) :
           setContextCalls[k].token = setContextCalls[k].contextUpdateToken
    /\ Begun # {} /\ AllReturned
          => \E u \in Begun : /\ updates[u].token = contextUpdateToken
                              /\ contextKey = <<updates[u].hasOutline>>

\* all updates are over, one that computed true was superseded while it
\* awaited, and the last one computed false
C28_Witness ==
    /\ Begun = Update /\ AllReturned
    /\ contextKey = <<FALSE>>
    /\ \E u \in Update : updates[u].hasOutline /\ updates[u].token < contextUpdateToken
    /\ Len(setContextCalls) < MaxUpdates

----------------------------------------------------------------------------
(* The symbol kind of a request: updateForEditor asks the node for its      *)
(* kind text and for its kind, and passes the kind as symbolType to         *)
(* streamDeepwikiArticle, which names it with deepwikiSymbolTypeName; the   *)
(* name is turned into the number of the wire by deepwikiSymbolTypeNumber.  *)

\* vscode.SymbolKind: File = 0 ... TypeParameter = 25, the numbering that
\* CustomCodeBlock.vue lines 456-483 lists; SymbolKindNames[kind + 1] is the
\* name of the kind
SymbolKindNames ==
    <<"File", "Module", "Namespace", "Package", "Class", "Method",
      "Property", "Field", "Constructor", "Enum", "Interface", "Function",
      "Variable", "Constant", "String", "Number", "Boolean", "Array",
      "Object", "Key", "Null", "EnumMember", "Struct", "Event", "Operator",
      "TypeParameter">>

SymbolKind(name) == (CHOOSE k \in 1..Len(SymbolKindNames) : SymbolKindNames[k] = name) - 1

SymbolKinds == {SymbolKind(SymbolKindNames[k]) : k \in 1..Len(SymbolKindNames)}

\* part_010 lines 605-632: KIND_MAP, keyed by vscode.SymbolKind
KIND_MAP ==
    [kind \in SymbolKinds |->
        IF kind = SymbolKind("File") THEN "DEEP_WIKI_SYMBOL_TYPE_FILE"
        ELSE IF kind = SymbolKind("Module") THEN "DEEP_WIKI_SYMBOL_TYPE_MODULE"
        ELSE IF kind = SymbolKind("Namespace") THEN "DEEP_WIKI_SYMBOL_TYPE_NAMESPACE"
        ELSE IF kind = SymbolKind("Package") THEN "DEEP_WIKI_SYMBOL_TYPE_PACKAGE"
        ELSE IF kind = SymbolKind("Class") THEN "DEEP_WIKI_SYMBOL_TYPE_CLASS"
        ELSE IF kind = SymbolKind("Method") THEN "DEEP_WIKI_SYMBOL_TYPE_METHOD"
        ELSE IF kind = SymbolKind("Property") THEN "DEEP_WIKI_SYMBOL_TYPE_PROPERTY"
        ELSE IF kind = SymbolKind("Field") THEN "DEEP_WIKI_SYMBOL_TYPE_FIELD"
        ELSE IF kind = SymbolKind("Constructor") THEN "DEEP_WIKI_SYMBOL_TYPE_CONSTRUCTOR"
        ELSE IF kind = SymbolKind("Enum") THEN "DEEP_WIKI_SYMBOL_TYPE_ENUM"
        ELSE IF kind = SymbolKind("Interface") THEN "DEEP_WIKI_SYMBOL_TYPE_INTERFACE"
        ELSE IF kind = SymbolKind("Function") THEN "DEEP_WIKI_SYMBOL_TYPE_FUNCTION"
        ELSE IF kind = SymbolKind("Variable") THEN "DEEP_WIKI_SYMBOL_TYPE_VARIABLE"
        ELSE IF kind = SymbolKind("Constant") THEN "DEEP_WIKI_SYMBOL_TYPE_CONSTANT"
        ELSE IF kind = SymbolKind("String") THEN "DEEP_WIKI_SYMBOL_TYPE_STRING"
        ELSE IF kind = SymbolKind("Number") THEN "DEEP_WIKI_SYMBOL_TYPE_NUMBER"
        ELSE IF kind = SymbolKind("Boolean") THEN "DEEP_WIKI_SYMBOL_TYPE_BOOLEAN"
        ELSE IF kind = SymbolKind("Array") THEN "DEEP_WIKI_SYMBOL_TYPE_ARRAY"
        ELSE IF kind = SymbolKind("Object") THEN "DEEP_WIKI_SYMBOL_TYPE_OBJECT"
        ELSE IF kind = SymbolKind("Key") THEN "DEEP_WIKI_SYMBOL_TYPE_KEY"
        ELSE IF kind = SymbolKind("Null") THEN "DEEP_WIKI_SYMBOL_TYPE_NULL"
        ELSE IF kind = SymbolKind("EnumMember") THEN "DEEP_WIKI_SYMBOL_TYPE_ENUM_MEMBER"
        ELSE IF kind = SymbolKind("Struct") THEN "DEEP_WIKI_SYMBOL_TYPE_STRUCT"
        ELSE IF kind = SymbolKind("Event") THEN "DEEP_WIKI_SYMBOL_TYPE_EVENT"
        ELSE IF kind = SymbolKind("Operator") THEN "DEEP_WIKI_SYMBOL_TYPE_OPERATOR"
        ELSE IF kind = SymbolKind("TypeParameter") THEN "DEEP_WIKI_SYMBOL_TYPE_TYPE_PARAMETER"
        ELSE "DEEP_WIKI_SYMBOL_TYPE_UNSPECIFIED"]

\* part_010 lines 634-636: mapSymbolKindToDeepWiki(kind)
mapSymbolKindToDeepWiki(kind) ==
    IF kind \in DOMAIN KIND_MAP THEN KIND_MAP[kind] ELSE "DEEP_WIKI_SYMBOL_TYPE_UNSPECIFIED"

\* deepwikiClient.ts lines 99-127: the map of deepwikiSymbolTypeName;
\* SymbolTypeNames[value + 1] is the name of value
SymbolTypeNames ==
    <<"DEEP_WIKI_SYMBOL_TYPE_UNSPECIFIED", "DEEP_WIKI_SYMBOL_TYPE_FILE",
      "DEEP_WIKI_SYMBOL_TYPE_MODULE", "DEEP_WIKI_SYMBOL_TYPE_NAMESPACE",
      "DEEP_WIKI_SYMBOL_TYPE_PACKAGE", "DEEP_WIKI_SYMBOL_TYPE_CLASS",
      "DEEP_WIKI_SYMBOL_TYPE_METHOD", "DEEP_WIKI_SYMBOL_TYPE_PROPERTY",
      "DEEP_WIKI_SYMBOL_TYPE_FIELD", "DEEP_WIKI_SYMBOL_TYPE_CONSTRUCTOR",
      "DEEP_WIKI_SYMBOL_TYPE_ENUM", "DEEP_WIKI_SYMBOL_TYPE_INTERFACE",
      "DEEP_WIKI_SYMBOL_TYPE_FUNCTION", "DEEP_WIKI_SYMBOL_TYPE_VARIABLE",
      "DEEP_WIKI_SYMBOL_TYPE_CONSTANT", "DEEP_WIKI_SYMBOL_TYPE_STRING",
      "DEEP_WIKI_SYMBOL_TYPE_NUMBER", "DEEP_WIKI_SYMBOL_TYPE_BOOLEAN",
      "DEEP_WIKI_SYMBOL_TYPE_ARRAY", "DEEP_WIKI_SYMBOL_TYPE_OBJECT",
      "DEEP_WIKI_SYMBOL_TYPE_KEY", "DEEP_WIKI_SYMBOL_TYPE_NULL",
      "DEEP_WIKI_SYMBOL_TYPE_ENUM_MEMBER", "DEEP_WIKI_SYMBOL_TYPE_STRUCT",
      "DEEP_WIKI_SYMBOL_TYPE_EVENT", "DEEP_WIKI_SYMBOL_TYPE_OPERATOR",
      "DEEP_WIKI_SYMBOL_TYPE_TYPE_PARAMETER">>

\* deepwikiClient.ts lines 98-129: deepwikiSymbolTypeName(value)
deepwikiSymbolTypeName(value) ==
    IF value \in 0..(Len(SymbolTypeNames) - 1) THEN SymbolTypeNames[value + 1]
    ELSE SymbolTypeNames[1]

\* deepwikiClient.ts lines 162-193: deepwikiSymbolTypeNumber(name)
deepwikiSymbolTypeNumber(name) ==
    IF \E k \in 1..Len(SymbolTypeNames) : SymbolTypeNames[k] = name
    THEN (CHOOSE k \in 1..Len(SymbolTypeNames) : SymbolTypeNames[k] = name) - 1
    ELSE 0

\* an editor symbol of some kind; nothing asked of the node yet ("" and -1)
InitKind ==
    /\ symbolKind \in SymbolKinds
    /\ symbolKindText = ""
    /\ symbolType = -1
    /\ requestJson = [sent |-> FALSE, symbol_type |-> "", symbolType |-> -1]
    /\ CallIdle /\ TwoIdle /\ IdsIdle /\ CtxIdle /\ FrameIdle /\ VarintIdle
    /\ FieldsIdle /\ PanelIdle /\ KeyIdle

restOfKind ==
    <<callVars, response, error, twoVars, idVars, ctxVars, frameVars, varintVars,
      fieldVars, panelVars, keyVars>>

\* contextView.ts line 399, part_016 lines 49-52: rich.getSymbolKindText()
GetSymbolKindText ==
    /\ symbolKindText = ""
    /\ symbolKindText' = mapSymbolKindToDeepWiki(symbolKind)
    /\ UNCHANGED <<symbolKind, symbolType, requestJson, restOfKind>>

\* contextView.ts line 403: symbolType = await rich.getSymbolKind(), the
\* vscode.SymbolKind of the symbol (part_005 lines 56-63)
GetSymbolKind ==
    /\ symbolKindText # ""
    /\ symbolType = -1
    /\ symbolType' = symbolKind
    /\ UNCHANGED <<symbolKind, symbolKindText, requestJson, restOfKind>>

\* contextView.ts lines 455-458 and deepwikiClient.ts lines 419, 220: the
\* request is built with symbol_type named after symbolType, and the name
\* turned into the number that goes on the wire
BuildSymbolType ==
    /\ symbolType # -1
    /\ ~requestJson.sent
    /\ requestJson' = [sent |-> TRUE,
                       symbol_type |-> deepwikiSymbolTypeName(symbolType),
                       symbolType |-> deepwikiSymbolTypeNumber(
                                          deepwikiSymbolTypeName(symbolType))]
    /\ UNCHANGED <<symbolKind, symbolKindText, symbolType, restOfKind>>

NextKind == GetSymbolKindText \/ GetSymbolKind \/ BuildSymbolType

SpecKind == InitKind /\ [][NextKind]_vars

(* C30: for every editor symbol kind, the symbol_type sent in the request   *)
(* names the same DeepWiki symbol type as the kind text that                *)
(* mapSymbolKindToDeepWiki gives for that kind, and its number is that of   *)
(* the name (FILE = 1 for a File, FUNCTION = 12 for a Function).            *)
C30_SymbolTypeNamesKind ==
    requestJson.sent
        => /\ requestJson.symbol_type = symbolKindText
           /\ SymbolTypeNames[requestJson.symbolType + 1] = symbolKindText
           /\ symbolKind = SymbolKind("Function") => requestJson.symbolType = 12
           /\ symbolKind = SymbolKind("File") => requestJson.symbolType = 1

\* a Function is shown as FUNCTION and sent as INTERFACE = 11
C30_FunctionSentAsInterface ==
    /\ requestJson.sent
    /\ symbolKind = SymbolKind("Function")
    /\ symbolKindText = "DEEP_WIKI_SYMBOL_TYPE_FUNCTION"
    /\ requestJson.symbol_type = "DEEP_WIKI_SYMBOL_TYPE_INTERFACE"
    /\ requestJson.symbolType = 11

\* a File is shown as FILE and sent as UNSPECIFIED = 0
C30_FileSentAsUnspecified ==
    /\ requestJson.sent
    /\ symbolKind = SymbolKind("File")
    /\ symbolKindText = "DEEP_WIKI_SYMBOL_TYPE_FILE"
    /\ requestJson.symbol_type = "DEEP_WIKI_SYMBOL_TYPE_UNSPECIFIED"
    /\ requestJson.symbolType = 0

----------------------------------------------------------------------------
(* C11: on a status outside 2xx either call fails with an error that carries *)
(* the status code and text, the body is never decoded and the streaming     *)
(* call delivers no message.                                                 *)

Untouched ==
    /\ nread = 0 /\ buffer = <<>> /\ events = <<>>
    /\ parsed = NotParsed /\ result = <<>>

\* "DeepWiki 请求失败: 404 Not Found"
Failed404 ==
    <<68, 101, 101, 112, 87, 105, 107, 105, 32, 35831, 27714, 22833, 36133, 58, 32,
      52, 48, 52, 32, 78, 111, 116, 32, 70, 111, 117, 110, 100>>

\* C11: with a status outside 200-299 the call, once past the status test, has
\* thrown the request-failed message made of the status and the status text,
\* and nothing of the body has been read, parsed or delivered
C11_NonOkStatusFails ==
    response.status \notin 200..299 =>
        /\ Untouched
        /\ spc \in {"connecting", "idle", "threw"}
        /\ bpc \in {"fetching", "idle", "threw"}
        /\ (spc = "threw" \/ bpc = "threw") =>
              /\ error = RequestFailed(response)
              /\ (response.status = 404 /\ response.statusText = TextNotFound)
                    => error = Failed404

\* a streaming call has thrown on 404 Not Found over a body with messages in it
C11_Witness ==
    /\ spc = "threw" /\ response.status = 404 /\ error = Failed404
    /\ ExpectedAll(frames) # <<>>
    /\ events = <<>>

====
